---------------------------- MODULE Spec2Model ----------------------------
(***************************************************************************)
(* Model of the voxelland chunk streaming worker (lib/src/game.rs,         *)
(* src/chunk.rs) and of the multiplayer relay server                       *)
(* (binaries/server/src/main.rs).                                          *)
(*                                                                         *)
(* Three specifications share the module:                                  *)
(*   SpecChunk   - the rebuild worker, the camera and the request producers*)
(*   SpecServer  - the accept loop, the per-client handler threads, the    *)
(*                 session-set lock and the per-connection stream locks;   *)
(*                 peers send any message, close or break the connection   *)
(*   SpecStrikes - the same server with a connection whose reads fail      *)
(*                 repeatedly; peers send block mutations or noise         *)
(***************************************************************************)
EXTENDS Integers, Sequences, FiniteSets, TLC

(***************************************************************************)
(* Bounds of the model.                                                    *)
(***************************************************************************)
Radius == 1          \* view radius handed to ChunkSystem::new
MaxCam == 1          \* the camera visits the chunks <<0,0>> .. <<MaxCam,0>>
MaxQueue == 3        \* rebuild requests pending at one time, all tiers together
AgeCap == 2          \* cap of the per-request count of gen-tier rebuilds
MaxChecks == 2       \* viewport-change checks the debounce timer lets through
FlyRadius == 12      \* view radius of the flying viewer
MaxFlyChecks == 6    \* viewport-change checks during the flight
PendGen == 5         \* gen-tier requests pending at the start of the pass
PendBackground == 10 \* background-tier requests pending at the start of the pass
MeshW == 1                   \* voxels of a chunk along x and along z that are meshed
MeshH == 1                   \* voxels of a chunk along y that are meshed
MaxPlaced == 2               \* occupied voxels around the meshed ones
MaxRebuilds == 2             \* rebuilds of the meshed slot
MaxReady == 3        \* ready notifications queued where single calls of the slot pool are followed
MaxPublished == 3    \* ready notifications published where the frames of the renderer are followed
MaxClients == 2      \* connections the server accepts
MaxMsgs == 1         \* messages one peer sends
MaxOrderMsgs == 2    \* messages one peer sends where the order of relays is studied
MaxStrikes == 5      \* transient read failures of the failing connection
MaxMobs == 1         \* cap of the number of mobs
MaxSends == 2        \* messages the client sends
MaxForeign == 1      \* block mutations of other clients the client receives
MaxRegens == 2       \* world regenerations of the client
MaxSeed == 1         \* seeds are 0 .. MaxSeed

(***************************************************************************)
(* Program constants.                                                      *)
(***************************************************************************)
PoolExtra == 5       \* chunk.rs:106  radius * 2 + 5
NoCoord == 999999    \* chunk.rs:112  pos of a slot never assigned
StrikeLimit == 4     \* server main.rs:176  errorstrikes > 4
MobsPerSpawn == 17   \* server main.rs:304-312  1 + 4 * 4 entities
IdPairSize == 16     \* server main.rs:55  serialized size of a u64 pair
LenPrefix == 8       \* server main.rs:83  bincode length prefix of a String
CW == 15                     \* chunk.rs: CW
MaxLight == 16               \* chunk.rs: clamp(0, 16)
Byte == 256                  \* u8
ChainBlock == 16             \* game.rs:2036  the block that is removed with its connected blocks
Water == 2                   \* chunk.rs: block == 2

VARIABLES
    radius,                      \* ChunkSystem.radius
    chunks,                      \* ChunkSystem.chunks: slot -> ChunkFacade
    takencare,                   \* ChunkSystem.takencare: coordinate -> ChunkFacade
    light_rebuild_requests,      \* the four request queues, FIFO
    user_rebuild_requests,
    gen_rebuild_requests,
    background_rebuild_requests,
    wpc,                         \* position of the worker in chunk_thread_inner_function
    camChunk,                    \* chunk coordinate of the camera
    last_user_c_pos,             \* last_user_c_pos of chunk_thread_function
    timeElapsed,                 \* time_since_last_check >= 1.0
    neededspots,                 \* locals of the viewport-change check
    sorted_chunk_facades,
    nsIndex,
    checks,                      \* history: viewport-change checks run so far
    poppedInPass,                \* history: the tiers below light the worker has popped in this pass
    pendAtLast,                  \* history: tiers pending when the last rebuild finished
    userWaited                   \* history: per queued user request, gen-tier rebuilds done while it was the oldest

VARIABLES
    terrain,                     \* what blockat returns for each spot around the meshed slot
    sideLight,                   \* the light level in the vertex data of Cube::get_side
    geobank,                     \* ChunkSystem.geobank: the ChunkGeo (four streams) of the slots meshed so far
    prevGeo,                     \* history: the streams the meshed slot held before its last rebuild
    rebuilds,                    \* history: completed rebuilds of the meshed slot
    geoqueue,                    \* ChunkSystem.geoqueue: slots whose geometry is ready, FIFO
    call                         \* the call of move_and_rebuild / rebuild_index in progress, statement by statement

VARIABLES
    finished_user_geo_queue,     \* ready notifications of rebuilds with user priority, FIFO
    finished_geo_queue,          \* ready notifications of the other rebuilds, FIFO
    chunk_memories,              \* what the renderer draws, for the slots that had an upload: lengths, coordinate, used
    rpc,                         \* position of the render thread in Game::draw
    published,                   \* history: notifications published so far
    frameStart,                  \* history: the notifications queued when the frame began
    served                       \* history: the notifications the renderer consumed, in order

frameVars == <<finished_user_geo_queue, finished_geo_queue, chunk_memories,
               rpc, published, frameStart, served>>

VARIABLES
    in_multiplayer,              \* GameVariables.in_multiplayer of the client
    client_udm,                  \* the override store of the client's world
    netconn_sent,                \* messages the client sent that the server has not relayed back yet, FIFO
    server_command_queue,        \* messages received from the server, FIFO
    sends,                       \* history: messages the client sent so far
    foreign                      \* history: block mutations of other clients received so far

VARIABLES
    run_chunk_thread,            \* Game.run_chunk_thread, the flag the rebuild worker polls
    chunk_thread,                \* Game.chunk_thread: the worker whose JoinHandle is kept (0 = None)
    workers,                     \* per rebuild worker thread: its position and the reset count it saw when its pass began
    loader,                      \* the thread of the whole-world rebuild behind the loading screen
    gpc,                         \* position of the client's main thread, and the seed and world type it regenerates with
    client_seed,                 \* seed and world type of the client's chunk system
    client_planet_type,
    client_nsme,                 \* number of mobs of the client
    resets                       \* history: resets of the client's chunk system so far

inputVars == <<client_udm, netconn_sent, server_command_queue, sends, foreign>>
regenVars == <<run_chunk_thread, chunk_thread, workers, loader, gpc, client_seed,
               client_planet_type, client_nsme, resets>>
clientVars == <<in_multiplayer, inputVars, regenVars>>

meshVars == <<terrain, sideLight, geobank, prevGeo, rebuilds, geoqueue, call,
              frameVars, clientVars>>

chunkVars == <<meshVars, radius, chunks, takencare, light_rebuild_requests, user_rebuild_requests,
               gen_rebuild_requests, background_rebuild_requests, wpc, camChunk,
               last_user_c_pos, timeElapsed, neededspots, sorted_chunk_facades,
               nsIndex, checks, pendAtLast, userWaited,
               poppedInPass>>

VARIABLES
    clients,          \* the session set: client id -> Client {errorstrikes}
    clientsLock,      \* holder of the Mutex around the session set ({} = free)
    clientsPoisoned,  \* that Mutex is poisoned
    streamLock,       \* per client: holder of the Mutex around its TcpStream
    streamPoisoned,
    hpc,              \* per client: position of its handle_client thread
    buffer,           \* per client: the bytes of the last read
    todo,             \* per client: the clients the relay loop has still to visit
    should_break,
    wire,             \* per client: what the server wrote to its connection, in order
    conn,             \* per client: state of the connection (the peer's side)
    iter,             \* per client: reads that returned so far
    udm,              \* the override store of the authoritative world
    currentseed,
    planet_type,
    files,            \* world/<seed>/{udm,seed,pt}
    knowncams,
    mobspawnqueued,
    nsme,             \* number of non-static model entities (mobs)
    mpc,              \* position of main
    accepted,         \* the connection accept() returned, not yet registered
    mtodo,            \* main: clients the broadcast loop has still to visit
    mobsLeft,         \* main: mobs the broadcast loop has still to send
    sent,             \* history per client: messages the peer has sent
    readFaults,       \* history per client: reads that failed non-cleanly
    consecFaults,     \* history per client: such reads since the last read of a message
    cleanClosed,      \* history per client: a read returned 0 bytes / end of stream
    faulted,          \* history per client: some fault happened on its connection
    udmWriter,        \* history: spot -> <<client, iter>> of the mutation last applied
    appliedIter       \* history per client: iter of its mutation last applied

lockVars == <<clientsLock, clientsPoisoned, streamLock, streamPoisoned>>
worldVars == <<udm, currentseed, planet_type, files, knowncams, mobspawnqueued,
               nsme, udmWriter, appliedIter>>
mainVars == <<mpc, accepted, mtodo, mobsLeft>>
histVars == <<sent, readFaults, consecFaults, cleanClosed, faulted>>
handlerVars == <<hpc, buffer, todo, should_break, iter>>

serverVars == <<clients, lockVars, worldVars, mainVars, histVars, handlerVars,
                wire, conn>>

vars == <<chunkVars, serverVars>>

----------------------------------------------------------------------------
(***************************************************************************)
(* ChunkSystem: the slot pool and the spatial index.                       *)
(***************************************************************************)
PoolSide == radius * 2 + PoolExtra
PoolSize == PoolSide * PoolSide
Slots == 0 .. (PoolSize - 1)
NoPos == <<NoCoord, NoCoord>>

ChunkFacade(i, u, p) == [geo_index |-> i, used |-> u, pos |-> p]

ChunkSystemNew == [i \in Slots |-> ChunkFacade(i, FALSE, NoPos)]

MapRemove(m, k) == [x \in (DOMAIN m) \ {k} |-> m[x]]
MapPut(m, k, v) == [x \in (DOMAIN m) \cup {k} |-> IF x = k THEN v ELSE m[x]]

\* rebuild_index: marks the slot used and, after meshing, installs its
\* coordinate in takencare when the coordinate is not indexed yet.
RebuildIndex(cs, tc, index) ==
    LET cs1 == [cs EXCEPT ![index].used = TRUE]
        p == cs1[index].pos
    IN [chunks |-> cs1,
        takencare |-> IF p \in DOMAIN tc THEN tc ELSE MapPut(tc, p, cs1[index])]

\* mutant of DropOldMapping: the old coordinate stays in the index
DropOldMapping_Kept(tc, oldpos) == tc

\* the old coordinate of a slot leaves takencare before the slot moves
DropOldMapping(tc, oldpos) ==
    IF oldpos \in DOMAIN tc THEN MapRemove(tc, oldpos) ELSE tc

MoveAndRebuild(cs, tc, index, cpos) ==
    IF cpos \notin DOMAIN tc
    THEN LET tc1 == DropOldMapping(tc, cs[index].pos)
             cs1 == [cs EXCEPT ![index].pos = cpos]
         IN RebuildIndex(cs1, tc1, index)
    ELSE RebuildIndex(cs, tc, tc[cpos].geo_index)

Abs(n) == IF n < 0 THEN -n ELSE n

----------------------------------------------------------------------------
(***************************************************************************)
(* The request queues.                                                     *)
(***************************************************************************)
Tiers == {"light", "user", "gen", "background"}
TierRank(t) == CASE t = "light" -> 0 [] t = "user" -> 1 [] t = "gen" -> 2
                 [] t = "background" -> 3
Higher(t) == {h \in Tiers : TierRank(h) < TierRank(t)}

Queue(t) == CASE t = "light" -> light_rebuild_requests
              [] t = "user" -> user_rebuild_requests
              [] t = "gen" -> gen_rebuild_requests
              [] t = "background" -> background_rebuild_requests

QueuedTotal == Len(light_rebuild_requests) + Len(user_rebuild_requests)
               + Len(gen_rebuild_requests) + Len(background_rebuild_requests)

Bump(n) == IF n < AgeCap THEN n + 1 ELSE n

\* The worker pops the head of tier t, if any, and rebuilds that slot; it
\* then continues at `some` (a request was popped) or at `none`.
PopAndRebuild(t, some, none) ==
    LET q == Queue(t) IN
    IF q = <<>>
    THEN /\ wpc' = none
         /\ UNCHANGED <<chunks, takencare, light_rebuild_requests,
                        user_rebuild_requests, gen_rebuild_requests,
                        background_rebuild_requests, pendAtLast, userWaited,
                        poppedInPass>>
    ELSE LET r == RebuildIndex(chunks, takencare, Head(q)) IN
         /\ wpc' = some
         /\ chunks' = r.chunks
         /\ takencare' = r.takencare
         /\ light_rebuild_requests' =
                IF t = "light" THEN Tail(q) ELSE light_rebuild_requests
         /\ user_rebuild_requests' =
                IF t = "user" THEN Tail(q) ELSE user_rebuild_requests
         /\ gen_rebuild_requests' =
                IF t = "gen" THEN Tail(q) ELSE gen_rebuild_requests
         /\ background_rebuild_requests' =
                IF t = "background" THEN Tail(q) ELSE background_rebuild_requests
         /\ userWaited' =
                CASE t = "user" -> Tail(userWaited)
                  [] t = "gen" -> [i \in DOMAIN userWaited |->
                                     IF i = 1 THEN Bump(userWaited[i])
                                     ELSE userWaited[i]]
                  [] OTHER -> userWaited
         /\ poppedInPass' = IF t = "light" THEN poppedInPass
                            ELSE poppedInPass \cup {t}
         /\ pendAtLast' = {h \in Tiers : Queue(h)' # <<>>}

queueVars == <<light_rebuild_requests, user_rebuild_requests,
               gen_rebuild_requests, background_rebuild_requests, userWaited>>

workerLocals == <<camChunk, last_user_c_pos, timeElapsed, neededspots,
                  sorted_chunk_facades, nsIndex, checks>>

----------------------------------------------------------------------------
(***************************************************************************)
(* chunk_thread_inner_function, one action per pop attempt.                *)
(***************************************************************************)
LightStage ==
    /\ wpc = "light"
    /\ PopAndRebuild("light", "light", "user")
    /\ UNCHANGED workerLocals
    /\ UNCHANGED <<radius, meshVars, serverVars>>

\* mutant of UserStage: the user loop is left without a pop
UserStage_Skipped ==
    /\ wpc = "user"
    /\ wpc' = "gen"
    /\ UNCHANGED <<chunks, takencare, pendAtLast, poppedInPass>>
    /\ UNCHANGED queueVars
    /\ UNCHANGED workerLocals
    /\ UNCHANGED <<radius, meshVars, serverVars>>

UserStage ==
    /\ wpc = "user"
    /\ PopAndRebuild("user", "user_light", "gen")
    /\ UNCHANGED workerLocals
    /\ UNCHANGED <<radius, meshVars, serverVars>>

UserStageLight ==
    /\ wpc = "user_light"
    /\ PopAndRebuild("light", "user", "user")
    /\ UNCHANGED workerLocals
    /\ UNCHANGED <<radius, meshVars, serverVars>>

GenStage ==
    /\ wpc = "gen"
    /\ PopAndRebuild("gen", "gen_user", "background")
    /\ UNCHANGED workerLocals
    /\ UNCHANGED <<radius, meshVars, serverVars>>

GenStageUser ==
    /\ wpc = "gen_user"
    /\ PopAndRebuild("user", "gen_light", "gen_light")
    /\ UNCHANGED workerLocals
    /\ UNCHANGED <<radius, meshVars, serverVars>>

GenStageLight ==
    /\ wpc = "gen_light"
    /\ PopAndRebuild("light", "gen", "gen")
    /\ UNCHANGED workerLocals
    /\ UNCHANGED <<radius, meshVars, serverVars>>

BackgroundStage ==
    /\ wpc = "background"
    /\ PopAndRebuild("background", "bg_user", "viewport")
    /\ UNCHANGED workerLocals
    /\ UNCHANGED <<radius, meshVars, serverVars>>

BackgroundStageUser ==
    /\ wpc = "bg_user"
    /\ PopAndRebuild("user", "bg_light", "bg_light")
    /\ UNCHANGED workerLocals
    /\ UNCHANGED <<radius, meshVars, serverVars>>

BackgroundStageLight ==
    /\ wpc = "bg_light"
    /\ PopAndRebuild("light", "bg_gen", "bg_gen")
    /\ UNCHANGED workerLocals
    /\ UNCHANGED <<radius, meshVars, serverVars>>

BackgroundStageGen ==
    /\ wpc = "bg_gen"
    /\ PopAndRebuild("gen", "bg_gendrain", "background")
    /\ UNCHANGED workerLocals
    /\ UNCHANGED <<radius, meshVars, serverVars>>

BackgroundStageGenDrain ==
    /\ wpc = "bg_gendrain"
    /\ PopAndRebuild("gen", "bg_gendrain", "background")
    /\ UNCHANGED workerLocals
    /\ UNCHANGED <<radius, meshVars, serverVars>>

----------------------------------------------------------------------------
(***************************************************************************)
(* The viewport-change check.                                              *)
(***************************************************************************)
WindowSide == 2 * radius
WindowSpot(c, n) == <<c[1] - radius + ((n - 1) \div WindowSide),
                      c[2] - radius + ((n - 1) % WindowSide)>>
WindowSeq(c) == [n \in 1 .. (WindowSide * WindowSide) |-> WindowSpot(c, n)]

NeededSpots(tc, c) ==
    LET NotResident(p) == p \notin DOMAIN tc IN SelectSeq(WindowSeq(c), NotResident)

UnusedOrDistant(chunk, c) ==
    IF ~chunk.used THEN TRUE
    ELSE Abs(chunk.pos[1] - c[1]) + Abs(chunk.pos[2] - c[2]) >= radius * 2

SortedChunkFacades(cs, c) ==
    LET all == [n \in 1 .. PoolSize |-> cs[n - 1]]
        Evictable(f) == UnusedOrDistant(f, c)
        Kept(f) == ~UnusedOrDistant(f, c)
    IN SelectSeq(all, Evictable) \o SelectSeq(all, Kept)

\* The debounce timer lets at most maxchecks checks through.
ViewportCheck(maxchecks) ==
    /\ wpc = "viewport"
    /\ IF camChunk # last_user_c_pos /\ timeElapsed
       THEN /\ last_user_c_pos' = camChunk
            /\ timeElapsed' = FALSE
            /\ neededspots' = NeededSpots(takencare, camChunk)
            /\ sorted_chunk_facades' = SortedChunkFacades(chunks, camChunk)
            /\ nsIndex' = 1
            /\ checks' = checks + 1
            /\ wpc' = "move"
            /\ UNCHANGED <<pendAtLast, poppedInPass>>
       ELSE /\ timeElapsed' \in IF checks < maxchecks THEN {timeElapsed, TRUE}
                                 ELSE {timeElapsed}
            /\ wpc' = "light"
            /\ pendAtLast' = {}
            /\ poppedInPass' = {}
            /\ UNCHANGED <<last_user_c_pos, neededspots, sorted_chunk_facades,
                           nsIndex, checks>>
    /\ UNCHANGED <<chunks, takencare, camChunk>>
    /\ UNCHANGED queueVars
    /\ UNCHANGED <<radius, meshVars, serverVars>>

Move ==
    /\ wpc = "move"
    /\ IF nsIndex > Len(neededspots)
       THEN /\ wpc' = "light"
            /\ pendAtLast' = {}
            /\ poppedInPass' = {}
            /\ neededspots' = <<>>
            /\ sorted_chunk_facades' = <<>>
            /\ nsIndex' = 1
            /\ UNCHANGED <<chunks, takencare>>
       ELSE IF nsIndex > Len(sorted_chunk_facades)
       THEN /\ wpc' = "panicked"
            /\ UNCHANGED <<chunks, takencare, pendAtLast, poppedInPass, neededspots,
                           sorted_chunk_facades, nsIndex>>
       ELSE LET r == MoveAndRebuild(chunks, takencare,
                                    sorted_chunk_facades[nsIndex].geo_index,
                                    neededspots[nsIndex]) IN
            /\ chunks' = r.chunks
            /\ takencare' = r.takencare
            /\ wpc' = "move_user"
            /\ UNCHANGED poppedInPass
            /\ pendAtLast' = {h \in Tiers : Queue(h) # <<>>}
            /\ UNCHANGED <<neededspots, sorted_chunk_facades, nsIndex>>
    /\ UNCHANGED <<camChunk, last_user_c_pos, timeElapsed, checks>>
    /\ UNCHANGED queueVars
    /\ UNCHANGED <<radius, meshVars, serverVars>>

MoveUser ==
    /\ wpc = "move_user"
    /\ PopAndRebuild("user", "endpass", "move_light")
    /\ UNCHANGED workerLocals
    /\ UNCHANGED <<radius, meshVars, serverVars>>

MoveLight ==
    /\ wpc = "move_light"
    /\ PopAndRebuild("light", "endpass", "move_gen")
    /\ UNCHANGED workerLocals
    /\ UNCHANGED <<radius, meshVars, serverVars>>

MoveGen ==
    /\ wpc = "move_gen"
    /\ PopAndRebuild("gen", "move", "move")
    /\ nsIndex' = nsIndex + 1
    /\ UNCHANGED <<camChunk, last_user_c_pos, timeElapsed, neededspots,
                   sorted_chunk_facades, checks>>
    /\ UNCHANGED <<radius, meshVars, serverVars>>

\* break out of the acquisition loop: the pass is over
EndPass ==
    /\ wpc = "endpass"
    /\ wpc' = "light"
    /\ pendAtLast' = {}
    /\ poppedInPass' = {}
    /\ neededspots' = <<>>
    /\ sorted_chunk_facades' = <<>>
    /\ nsIndex' = 1
    /\ UNCHANGED <<chunks, takencare>>
    /\ UNCHANGED <<camChunk, last_user_c_pos, timeElapsed, checks>>
    /\ UNCHANGED queueVars
    /\ UNCHANGED <<radius, meshVars, serverVars>>

----------------------------------------------------------------------------
(***************************************************************************)
(* The other threads: the camera and the producers of rebuild requests.    *)
(***************************************************************************)
CamPositions == {<<x, 0>> : x \in 0 .. MaxCam}

CameraMove ==
    /\ \E c \in CamPositions \ {camChunk} : camChunk' = c
    /\ UNCHANGED <<chunks, takencare, wpc, last_user_c_pos, timeElapsed,
                   neededspots, sorted_chunk_facades, nsIndex, checks, pendAtLast, poppedInPass>>
    /\ UNCHANGED queueVars
    /\ UNCHANGED <<radius, meshVars, serverVars>>

\* A rerender request names the slot that holds the chunk of the camera.
QueueRerender ==
    /\ QueuedTotal < MaxQueue
    /\ camChunk \in DOMAIN takencare
    /\ \E t \in Tiers :
        LET index == takencare[camChunk].geo_index IN
        /\ light_rebuild_requests' =
               IF t = "light" THEN Append(light_rebuild_requests, index)
               ELSE light_rebuild_requests
        /\ user_rebuild_requests' =
               IF t = "user" THEN Append(user_rebuild_requests, index)
               ELSE user_rebuild_requests
        /\ gen_rebuild_requests' =
               IF t = "gen" THEN Append(gen_rebuild_requests, index)
               ELSE gen_rebuild_requests
        /\ background_rebuild_requests' =
               IF t = "background" THEN Append(background_rebuild_requests, index)
               ELSE background_rebuild_requests
        /\ userWaited' = IF t = "user" THEN Append(userWaited, 0) ELSE userWaited
    /\ UNCHANGED <<chunks, takencare, wpc, camChunk, last_user_c_pos, timeElapsed,
                   neededspots, sorted_chunk_facades, nsIndex, checks, pendAtLast, poppedInPass>>
    /\ UNCHANGED <<radius, meshVars, serverVars>>

----------------------------------------------------------------------------
(***************************************************************************)
(* The relay server: messages and the wire.                                *)
(***************************************************************************)
ClientIds == 1 .. MaxClients
MainThread == MaxClients + 1
Seeds == 0 .. MaxSeed
ZeroVec == <<0, 0, 0>>
Spots == {<<1, 2, 3>>}
BlockIds == {5, 6}

Message(t, spot, info) == [message_type |-> t, spot |-> spot, info |-> info]
\* mutant of NoneMessage: the placeholder is a message with an effect
NoneMessage_Takeoff == Message("RequestTakeoff", ZeroVec, 0)

\* the placeholder that stands in for bytes that do not decode
NoneMessage == Message("None", ZeroVec, 0)

\* bincode: the bytes of a message, or bytes that decode to nothing
Serialize(m) == [ok |-> TRUE, msg |-> m]
Garbage == [ok |-> FALSE, msg |-> NoneMessage]
Deserialize(b) == IF b.ok THEN b.msg ELSE NoneMessage

RequestTypes == {"RequestUdm", "RequestSeed", "RequestPt", "RequestTakeoff"}

\* what a peer may send in one read
ClientBytes ==
    {Serialize(Message(t, ZeroVec, 0)) : t \in RequestTypes}
    \cup {Serialize(Message("BlockSet", s, b)) : s \in Spots, b \in BlockIds}
    \cup {Serialize(Message("PlayerUpdate", s, 0)) : s \in Spots}
    \cup {Garbage}

\* bincode::serialized_size of a body: a u64 pair, or a length-prefixed text
BodySize(of, payload) ==
    CASE of = "id" -> IdPairSize
      [] of = "udm" -> LenPrefix + Cardinality(DOMAIN payload)
      [] OTHER -> LenPrefix + 1

HeaderEntry(src, seq, t, of, payload) ==
    [tag |-> "header", src |-> src, seq |-> seq,
     bytes |-> Serialize(Message(t, ZeroVec, BodySize(of, payload)))]
BodyEntry(src, seq, of, payload) ==
    [tag |-> "body", src |-> src, seq |-> seq, of |-> of, payload |-> payload]
RelayEntry(src, seq, bytes) ==
    [tag |-> "relay", src |-> src, seq |-> seq, bytes |-> bytes]
MobEntry(id) ==
    [tag |-> "mob", src |-> MainThread, seq |-> 0,
     bytes |-> Serialize(Message("MobUpdate", ZeroVec, id))]

\* mutant of WriteWithBody: the header goes out without its body
WriteWithBody_HeaderOnly(w, c, seq, t, of, payload) ==
    [w EXCEPT ![c] = Append(@, HeaderEntry(c, seq, t, of, payload))]

\* the header of a variable-length message, then its body
WriteWithBody(w, c, seq, t, of, payload) ==
    [w EXCEPT ![c] = @ \o <<HeaderEntry(c, seq, t, of, payload),
                            BodyEntry(c, seq, of, payload)>>]

\* the two writes of a variable-length message, one by one
WriteHeader(w, c, seq, t, of, payload) ==
    [w EXCEPT ![c] = Append(@, HeaderEntry(c, seq, t, of, payload))]
WriteBody(w, c, seq, of, payload) ==
    [w EXCEPT ![c] = Append(@, BodyEntry(c, seq, of, payload))]

\* mutant of RelayWrite: the sender gets no copy
RelayWrite_SkipSender(w, sender, seq, id, bytes) ==
    IF id = sender THEN w
    ELSE [w EXCEPT ![id] = Append(@, RelayEntry(sender, seq, bytes))]

\* mutant of RelayWrite: the bytes are put in front of what was written
RelayWrite_Front(w, sender, seq, id, bytes) ==
    [w EXCEPT ![id] = <<RelayEntry(sender, seq, bytes)>> \o @]

\* mutant of RelayWrite: the sender's own copy is put in front of what its
\* connection holds
RelayWrite_OwnFirst(w, sender, seq, id, bytes) ==
    IF id = sender THEN [w EXCEPT ![id] = <<RelayEntry(sender, seq, bytes)>> \o @]
    ELSE [w EXCEPT ![id] = Append(@, RelayEntry(sender, seq, bytes))]

\* mutant of RelayWrite: only messages that are no requests are relayed
RelayWrite_NoRequests(w, sender, seq, id, bytes) ==
    IF Deserialize(bytes).message_type \in RequestTypes \cup {"None"} THEN w
    ELSE [w EXCEPT ![id] = Append(@, RelayEntry(sender, seq, bytes))]

\* one iteration of the redistribution loop: the received bytes go to `id`
RelayWrite(w, sender, seq, id, bytes) ==
    [w EXCEPT ![id] = Append(@, RelayEntry(sender, seq, bytes))]

Perms(S) == {s \in [1 .. Cardinality(S) -> S] :
                \A i, j \in 1 .. Cardinality(S) : i # j => s[i] # s[j]}

Min(a, b) == IF a < b THEN a ELSE b

----------------------------------------------------------------------------
(***************************************************************************)
(* The authoritative world of the server.                                  *)
(***************************************************************************)
\* ChunkSystem::set_block: the override store takes the block
SetBlock(u, spot, block) == MapPut(u, spot, block)

\* ChunkSystem::save_current_world_to_file: the three blobs are rewritten whole
SaveCurrentWorldToFile(f, seed, u, pt) ==
    MapPut(f, seed, [udm |-> u, seed |-> seed, pt |-> pt])

\* the generator decides where the override store has no entry
Generated(seed, spot) == (seed + spot[1] + spot[2] + spot[3]) % 5

\* ChunkSystem::blockat: the override store first, then the generator
BlockAt(u, seed, spot) == IF spot \in DOMAIN u THEN u[spot] ELSE Generated(seed, spot)

\* mutant of BlockSetArm: the mutation is relayed but never applied
BlockSetArm_NotApplied(u, spot, block) == u

\* the BlockSet arm of handle_client: the world takes the block
BlockSetArm(u, spot, block) == SetBlock(u, spot, block)

\* mutant of NextPlanetType: the world type stays as it was
NextPlanetType_Kept(curr_planet_type) == curr_planet_type

\* the world type handed to reset() by the RequestTakeoff arm
NextPlanetType(curr_planet_type) == (curr_planet_type + 1) % 2

\* mutant of StrikeOut: one fault more is tolerated
StrikeOut_OffByOne(strikes) == strikes > StrikeLimit + 1

\* the fault counter has exceeded the limit
StrikeOut(strikes) == strikes > StrikeLimit

----------------------------------------------------------------------------
(***************************************************************************)
(* handle_client: one thread per client.                                   *)
(***************************************************************************)
Alive == mpc # "panicked"

SetLocks(cl, cp, sl, sp) ==
    /\ clientsLock' = cl
    /\ clientsPoisoned' = cp
    /\ streamLock' = sl
    /\ streamPoisoned' = sp

\* mutant of StreamFree: a stream is written without its lock
StreamFree_Always(sl, id) == TRUE

\* stream.lock() returns: nobody holds the Mutex around the stream of id
StreamFree(sl, id) == sl[id] = {}

\* An unwrap() fails in the handler of c: the thread unwinds, the guards it
\* holds are dropped and their mutexes are poisoned.
HandlerPanics(c, holdsStream, holdsClients) ==
    /\ hpc' = [hpc EXCEPT ![c] = "panicked"]
    /\ SetLocks(IF holdsClients THEN {} ELSE clientsLock,
                holdsClients \/ clientsPoisoned,
                IF holdsStream THEN [streamLock EXCEPT ![c] = {}] ELSE streamLock,
                IF holdsStream THEN [streamPoisoned EXCEPT ![c] = TRUE]
                ELSE streamPoisoned)

\* clients.lock(), clone of the own stream, unlock
CloneStream(c) ==
    /\ Alive
    /\ hpc[c] = "top"
    /\ clientsLock = {}
    /\ IF clientsPoisoned
       THEN HandlerPanics(c, FALSE, FALSE)
       ELSE /\ hpc' = [hpc EXCEPT ![c] = "sendid"]
            /\ UNCHANGED lockVars
    /\ UNCHANGED <<clients, worldVars, mainVars, histVars, buffer, todo,
                   should_break, iter, wire, conn, chunkVars>>

\* stream.lock(), held to the end of the iteration; then the YourId header
\* and the id, written at the top of every iteration
SendId(c) ==
    /\ Alive
    /\ hpc[c] = "sendid"
    /\ StreamFree(streamLock, c)
    /\ IF streamPoisoned[c]
       THEN /\ HandlerPanics(c, FALSE, FALSE)
            /\ UNCHANGED wire
       ELSE IF conn[c] = "reset"
       THEN /\ HandlerPanics(c, TRUE, FALSE)
            /\ UNCHANGED wire
       ELSE /\ wire' = WriteWithBody(wire, c, iter[c], "YourId", "id", c)
            /\ hpc' = [hpc EXCEPT ![c] = "read"]
            /\ SetLocks(clientsLock, clientsPoisoned,
                        [streamLock EXCEPT ![c] = {c}], streamPoisoned)
    /\ UNCHANGED <<clients, worldVars, mainVars, histVars, buffer, todo,
                   should_break, iter, conn, chunkVars>>

\* transient read failures (an interrupted read) hit one connection only, and
\* at most maxfaults times
MayFail(c, maxfaults) ==
    /\ conn[c] = "open"
    /\ readFaults[c] < maxfaults
    /\ \A d \in ClientIds \ {c} : readFaults[d] = 0

\* mystream.read(&mut buffer) returns: bytes of msgs, nothing, or an error
ReadUpTo(c, msgs, maxfaults, maxmsgs) ==
    /\ Alive
    /\ hpc[c] = "read"
    /\ iter' = [iter EXCEPT ![c] = @ + 1]
    /\ \/ /\ conn[c] = "open"
          /\ sent[c] < maxmsgs
          /\ \E b \in msgs :
                /\ buffer' = [buffer EXCEPT ![c] = b]
                /\ faulted' = [faulted EXCEPT ![c] = @ \/ ~b.ok]
          /\ sent' = [sent EXCEPT ![c] = @ + 1]
          /\ hpc' = [hpc EXCEPT ![c] = "dispatch"]
          /\ consecFaults' = [consecFaults EXCEPT ![c] = 0]
          /\ UNCHANGED <<lockVars, should_break, readFaults, cleanClosed>>
       \/ /\ conn[c] = "closed"
          /\ should_break' = [should_break EXCEPT ![c] = TRUE]
          /\ cleanClosed' = [cleanClosed EXCEPT ![c] = TRUE]
          /\ SetLocks(clientsLock, clientsPoisoned,
                      [streamLock EXCEPT ![c] = {}], streamPoisoned)
          /\ hpc' = [hpc EXCEPT ![c] = "brk"]
          /\ UNCHANGED <<buffer, sent, readFaults, consecFaults, faulted>>
       \/ /\ MayFail(c, maxfaults) \/ conn[c] = "reset"
          /\ readFaults' = [readFaults EXCEPT ![c] = @ + 1]
          /\ consecFaults' = [consecFaults EXCEPT ![c] = @ + 1]
          /\ faulted' = [faulted EXCEPT ![c] = TRUE]
          /\ hpc' = [hpc EXCEPT ![c] = "err"]
          /\ UNCHANGED <<lockVars, buffer, should_break, sent, cleanClosed>>
    /\ UNCHANGED <<clients, worldVars, mainVars, todo, wire, conn, chunkVars>>

\* a peer sends at most MaxMsgs messages
Read(c, msgs, maxfaults) == ReadUpTo(c, msgs, maxfaults, MaxMsgs)

\* the match on message.message_type
Dispatch(c) ==
    LET m == Deserialize(buffer[c])
        t == m.message_type
        blob == IF t = "RequestUdm" THEN "udm"
                ELSE IF t = "RequestSeed" THEN "seed" ELSE "pt"
        reply == IF t = "RequestUdm" THEN "Udm"
                 ELSE IF t = "RequestSeed" THEN "Seed" ELSE "Pt"
    IN
    /\ Alive
    /\ hpc[c] = "dispatch"
    /\ IF t \in {"RequestUdm", "RequestSeed", "RequestPt"}
       THEN /\ IF currentseed \notin DOMAIN files \/ conn[c] = "reset"
               THEN /\ HandlerPanics(c, TRUE, FALSE)
                    /\ UNCHANGED wire
               ELSE /\ wire' = WriteWithBody(wire, c, iter[c], reply, blob,
                                             files[currentseed][blob])
                    /\ hpc' = [hpc EXCEPT ![c] = "relay_lock"]
                    /\ UNCHANGED lockVars
            /\ UNCHANGED worldVars
       ELSE IF t = "PlayerUpdate"
       THEN /\ knowncams' = MapPut(knowncams, c, m.spot)
            /\ hpc' = [hpc EXCEPT ![c] = "relay_lock"]
            /\ UNCHANGED <<udm, currentseed, planet_type, files, mobspawnqueued,
                           nsme, udmWriter, appliedIter, lockVars, wire>>
       ELSE IF t = "BlockSet"
       THEN LET u == BlockSetArm(udm, m.spot, m.info) IN
            /\ udm' = u
            /\ files' = SaveCurrentWorldToFile(files, currentseed, u, planet_type)
            /\ udmWriter' = MapPut(udmWriter, m.spot, <<c, iter[c]>>)
            /\ appliedIter' = [appliedIter EXCEPT ![c] = iter[c]]
            /\ hpc' = [hpc EXCEPT ![c] = "relay_lock"]
            /\ UNCHANGED <<currentseed, planet_type, knowncams, mobspawnqueued,
                           nsme, lockVars, wire>>
       ELSE IF t = "RequestTakeoff"
       THEN /\ \E newseed \in Seeds :
                 LET pt == NextPlanetType(planet_type) IN
                 /\ currentseed' = newseed
                 /\ planet_type' = pt
                 /\ udm' = <<>>
                 /\ files' = SaveCurrentWorldToFile(files, newseed, <<>>, pt)
            /\ udmWriter' = <<>>
            /\ mobspawnqueued' = TRUE
            /\ hpc' = [hpc EXCEPT ![c] = "relay_lock"]
            /\ UNCHANGED <<knowncams, nsme, appliedIter, lockVars, wire>>
       ELSE /\ hpc' = [hpc EXCEPT ![c] = "relay_lock"]
            /\ UNCHANGED <<worldVars, lockVars, wire>>
    /\ UNCHANGED <<clients, mainVars, histVars, buffer, todo, should_break,
                   iter, conn, chunkVars>>

\* clients.lock() of the redistribution loop, the own stream still locked
RelayLock(c) ==
    /\ Alive
    /\ hpc[c] = "relay_lock"
    /\ clientsLock = {}
    /\ IF clientsPoisoned
       THEN /\ HandlerPanics(c, TRUE, FALSE)
            /\ UNCHANGED todo
       ELSE /\ \E order \in Perms(DOMAIN clients) :
                 todo' = [todo EXCEPT ![c] = order]
            /\ hpc' = [hpc EXCEPT ![c] = "relay"]
            /\ SetLocks({c}, clientsPoisoned, streamLock, streamPoisoned)
    /\ UNCHANGED <<clients, worldVars, mainVars, histVars, buffer,
                   should_break, iter, wire, conn, chunkVars>>

\* one iteration of the redistribution loop; after the last one the guards
\* are dropped and the thread sleeps until its next iteration
Relay(c) ==
    LET id == Head(todo[c]) IN
    /\ Alive
    /\ hpc[c] = "relay"
    /\ id # c => StreamFree(streamLock, id)
    /\ IF id # c /\ streamPoisoned[id]
       THEN /\ HandlerPanics(c, TRUE, TRUE)
            /\ UNCHANGED <<wire, todo>>
       ELSE /\ wire' = RelayWrite(wire, c, iter[c], id, buffer[c])
            /\ todo' = [todo EXCEPT ![c] = Tail(@)]
            /\ IF Tail(todo[c]) = <<>>
               THEN /\ hpc' = [hpc EXCEPT ![c] = "top"]
                    /\ SetLocks({}, clientsPoisoned,
                                [streamLock EXCEPT ![c] = {}], streamPoisoned)
               ELSE UNCHANGED <<hpc, lockVars>>
    /\ UNCHANGED <<clients, worldVars, mainVars, histVars, buffer,
                   should_break, iter, conn, chunkVars>>

\* the Err arm of the read: a strike, under clients.lock()
ReadError(c) ==
    /\ Alive
    /\ hpc[c] = "err"
    /\ clientsLock = {}
    /\ IF clientsPoisoned
       THEN /\ HandlerPanics(c, TRUE, FALSE)
            /\ UNCHANGED <<clients, should_break>>
       ELSE LET strikes == clients[c].errorstrikes + 1 IN
            /\ clients' = [clients EXCEPT ![c].errorstrikes = strikes]
            /\ should_break' = [should_break EXCEPT ![c] = StrikeOut(strikes)]
            /\ hpc' = [hpc EXCEPT ![c] = IF StrikeOut(strikes) THEN "brk"
                                         ELSE "top"]
            /\ SetLocks(clientsLock, clientsPoisoned,
                        [streamLock EXCEPT ![c] = {}], streamPoisoned)
    /\ UNCHANGED <<worldVars, mainVars, histVars, buffer, todo, iter, wire,
                   conn, chunkVars>>

\* mutant of Break: the removal empties the session set
Break_Clears(c) ==
    /\ Alive
    /\ hpc[c] = "brk"
    /\ clientsLock = {}
    /\ IF clientsPoisoned
       THEN /\ HandlerPanics(c, FALSE, FALSE)
            /\ UNCHANGED clients
       ELSE /\ clients' = <<>>
            /\ hpc' = [hpc EXCEPT ![c] = "done"]
            /\ UNCHANGED lockVars
    /\ UNCHANGED <<worldVars, mainVars, histVars, buffer, todo, should_break,
                   iter, wire, conn, chunkVars>>

\* should_break: the client leaves the session set and the loop ends
Break(c) ==
    /\ Alive
    /\ hpc[c] = "brk"
    /\ clientsLock = {}
    /\ IF clientsPoisoned
       THEN /\ HandlerPanics(c, FALSE, FALSE)
            /\ UNCHANGED clients
       ELSE /\ clients' = MapRemove(clients, c)
            /\ hpc' = [hpc EXCEPT ![c] = "done"]
            /\ UNCHANGED lockVars
    /\ UNCHANGED <<worldVars, mainVars, histVars, buffer, todo, should_break,
                   iter, wire, conn, chunkVars>>

----------------------------------------------------------------------------
(***************************************************************************)
(* The peers.                                                              *)
(***************************************************************************)
\* The server observes what the peer does to the connection only in the
\* handler's own reads and writes: writes of other threads ignore failure.
TouchesConnection == {"sendid", "read", "dispatch"}

\* the peer closes its connection
ClientClose(c) ==
    /\ Alive
    /\ conn[c] = "open"
    /\ hpc[c] \in TouchesConnection
    /\ conn' = [conn EXCEPT ![c] = "closed"]
    /\ faulted' = [faulted EXCEPT ![c] = TRUE]
    /\ UNCHANGED <<clients, lockVars, worldVars, mainVars, handlerVars, wire,
                   sent, readFaults, consecFaults, cleanClosed, chunkVars>>

\* the connection breaks: reads and writes fail from now on
ClientReset(c) ==
    /\ Alive
    /\ conn[c] = "open"
    /\ hpc[c] \in TouchesConnection
    /\ conn' = [conn EXCEPT ![c] = "reset"]
    /\ faulted' = [faulted EXCEPT ![c] = TRUE]
    /\ UNCHANGED <<clients, lockVars, worldVars, mainVars, handlerVars, wire,
                   sent, readFaults, consecFaults, cleanClosed, chunkVars>>

----------------------------------------------------------------------------
(***************************************************************************)
(* main: the accept loop and the mob broadcast.                            *)
(***************************************************************************)
Unconnected == {c \in ClientIds : conn[c] = "none"}

Accept ==
    /\ mpc = "accept"
    /\ Unconnected # {}
    /\ LET c == CHOOSE x \in Unconnected : \A y \in Unconnected : x <= y IN
       /\ conn' = [conn EXCEPT ![c] = "open"]
       /\ accepted' = c
    /\ mpc' = "insert"
    /\ UNCHANGED <<clients, lockVars, worldVars, mtodo, mobsLeft,
                   histVars, handlerVars, wire, chunkVars>>

\* the new client enters the session set and its handler thread is spawned;
\* the main loop goes on to its update and snapshots the mobs (nsme_bare)
Register ==
    /\ mpc = "insert"
    /\ clientsLock = {}
    /\ IF clientsPoisoned
       THEN /\ mpc' = "panicked"
            /\ UNCHANGED <<clients, hpc, mobsLeft>>
       ELSE /\ clients' = MapPut(clients, accepted, [errorstrikes |-> 0])
            /\ hpc' = [hpc EXCEPT ![accepted] = "top"]
            /\ mobsLeft' = nsme
            /\ mpc' = "mobloop"
    /\ UNCHANGED <<lockVars, worldVars, accepted, mtodo,
                   histVars, buffer, todo, should_break, iter, wire, conn,
                   chunkVars>>

\* for nsme in nsme_bare: clients.lock() for the inner loop
MobLoop ==
    /\ mpc = "mobloop"
    /\ IF mobsLeft = 0
       THEN /\ mpc' = "spawncheck"
            /\ UNCHANGED <<lockVars, mtodo>>
       ELSE /\ clientsLock = {}
            /\ IF clientsPoisoned
               THEN /\ mpc' = "panicked"
                    /\ UNCHANGED <<lockVars, mtodo>>
               ELSE /\ \E order \in Perms(DOMAIN clients) : mtodo' = order
                    /\ mpc' = "mobsend"
                    /\ SetLocks({MainThread}, clientsPoisoned, streamLock,
                                streamPoisoned)
    /\ UNCHANGED <<clients, worldVars, accepted, mobsLeft,
                   histVars, handlerVars, wire, conn, chunkVars>>

\* one MobUpdate to one client, or the end of the inner loop
MobSend ==
    /\ mpc = "mobsend"
    /\ IF mtodo = <<>>
       THEN /\ SetLocks({}, clientsPoisoned, streamLock, streamPoisoned)
            /\ mobsLeft' = mobsLeft - 1
            /\ mpc' = "mobloop"
            /\ UNCHANGED <<wire, mtodo>>
       ELSE LET id == Head(mtodo) IN
            /\ StreamFree(streamLock, id)
            /\ IF streamPoisoned[id]
               THEN /\ mpc' = "panicked"
                    /\ SetLocks({}, TRUE, streamLock, streamPoisoned)
                    /\ UNCHANGED <<wire, mtodo, mobsLeft>>
               ELSE /\ wire' = [wire EXCEPT ![id] = Append(@, MobEntry(mobsLeft))]
                    /\ mtodo' = Tail(mtodo)
                    /\ UNCHANGED <<mpc, lockVars, mobsLeft>>
    /\ UNCHANGED <<clients, worldVars, accepted, histVars,
                   handlerVars, conn, chunkVars>>

\* the deferred mob spawn
SpawnCheck ==
    /\ mpc = "spawncheck"
    /\ nsme' = IF mobspawnqueued /\ planet_type = 1
               THEN Min(nsme + MobsPerSpawn, MaxMobs) ELSE nsme
    /\ mpc' = "accept"
    /\ UNCHANGED <<clients, lockVars, udm, currentseed, planet_type, files,
                   knowncams, mobspawnqueued, udmWriter, appliedIter, accepted,
                   mtodo, mobsLeft, histVars, handlerVars, wire,
                   conn, chunkVars>>

----------------------------------------------------------------------------
ServerInit ==
    /\ clients = <<>>
    /\ clientsLock = {}
    /\ clientsPoisoned = FALSE
    /\ streamLock = [c \in ClientIds |-> {}]
    /\ streamPoisoned = [c \in ClientIds |-> FALSE]
    /\ hpc = [c \in ClientIds |-> "unborn"]
    /\ buffer = [c \in ClientIds |-> Garbage]
    /\ todo = [c \in ClientIds |-> <<>>]
    /\ should_break = [c \in ClientIds |-> FALSE]
    /\ wire = [c \in ClientIds |-> <<>>]
    /\ conn = [c \in ClientIds |-> "none"]
    /\ iter = [c \in ClientIds |-> 0]
    /\ udm = <<>>
    /\ currentseed = 0
    /\ planet_type = 0
    /\ files = SaveCurrentWorldToFile(<<>>, 0, <<>>, 0)
    /\ knowncams = <<>>
    /\ mobspawnqueued = FALSE
    /\ nsme = 0
    /\ mpc = "accept"
    /\ accepted = 0
    /\ mtodo = <<>>
    /\ mobsLeft = 0
    /\ sent = [c \in ClientIds |-> 0]
    /\ readFaults = [c \in ClientIds |-> 0]
    /\ consecFaults = [c \in ClientIds |-> 0]
    /\ cleanClosed = [c \in ClientIds |-> FALSE]
    /\ faulted = [c \in ClientIds |-> FALSE]
    /\ udmWriter = <<>>
    /\ appliedIter = [c \in ClientIds |-> 0]

\* Reads fail here only on a broken connection; SpecStrikes adds the
\* transient failures.
ServerNext ==
    \/ \E c \in ClientIds : CloneStream(c)
    \/ \E c \in ClientIds : SendId(c)
    \/ \E c \in ClientIds : Read(c, ClientBytes, 0)
    \/ \E c \in ClientIds : Dispatch(c)
    \/ \E c \in ClientIds : RelayLock(c)
    \/ \E c \in ClientIds : Relay(c)
    \/ \E c \in ClientIds : ReadError(c)
    \/ \E c \in ClientIds : Break(c)
    \/ \E c \in ClientIds : ClientClose(c)
    \/ \E c \in ClientIds : ClientReset(c)
    \/ Accept
    \/ Register
    \/ MobLoop
    \/ MobSend
    \/ SpawnCheck

----------------------------------------------------------------------------
\* ChunkSystem::new(r) and the locals of chunk_thread_function
ChunkStart(r) ==
    /\ radius = r
    /\ chunks = ChunkSystemNew
    /\ takencare = <<>>
    /\ light_rebuild_requests = <<>>
    /\ user_rebuild_requests = <<>>
    /\ gen_rebuild_requests = <<>>
    /\ background_rebuild_requests = <<>>
    /\ wpc = "light"
    /\ camChunk = <<0, 0>>
    /\ last_user_c_pos = <<-99999, -99999>>
    /\ timeElapsed = TRUE
    /\ neededspots = <<>>
    /\ sorted_chunk_facades = <<>>
    /\ nsIndex = 1
    /\ checks = 0
    /\ pendAtLast = {}
    /\ poppedInPass = {}
    /\ userWaited = <<>>

ChunkInit == ChunkStart(Radius)

----------------------------------------------------------------------------
(***************************************************************************)
(* The mesher of rebuild_index.  Blocks, Cube and PackedVertex are other    *)
(* modules of the crate; the generator's noise is the variable terrain.    *)
(***************************************************************************)
MeshBlocks == {0, 1, Water, 7, 8}
\* Blocks::is_transparent: water and glass
IsTransparent(b) == b \in {Water, 8}
\* Blocks::is_semi_transparent: leaves
IsSemiTransparent(b) == b \in {7}
\* Blocks::get_tex_coords: the atlas cell of a side of a block
GetTexCoords(block, cubeside) == <<block, cubeside>>

CubeSides == 0 .. 5
Add3(a, b) == <<a[1] + b[1], a[2] + b[2], a[3] + b[3]>>
\* a vector with n along the axis of the side, and a, b along the other two
AlongSide(cubeside, n, a, b) ==
    CASE cubeside \div 2 = 0 -> <<n, a, b>>
      [] cubeside \div 2 = 1 -> <<a, n, b>>
      [] OTHER -> <<a, b, n>>
\* Cube::get_neighbors: the voxel across each side
GetNeighbors ==
    [cubeside \in CubeSides |->
        AlongSide(cubeside, IF cubeside % 2 = 1 THEN 1 ELSE -1, 0, 0)]
\* the corners of a side that its two triangles run through
SideCorners == <<<<0, 0>>, <<1, 0>>, <<1, 1>>, <<1, 1>>, <<0, 1>>, <<0, 0>>>>
\* Cube::get_side: six vertices of four bytes, three offsets and the light
GetSide(cubeside, light) ==
    [ind \in 0 .. 5 |->
        AlongSide(cubeside, cubeside % 2, SideCorners[ind + 1][1],
                  SideCorners[ind + 1][2]) \o <<light>>]
\* Cube::get_amb_occul_spots: the three voxels that touch a vertex of a side
\* from the outside
GetAmbOcculSpots(cubeside, ind) ==
    LET n == IF cubeside % 2 = 1 THEN 1 ELSE -1
        a == 2 * SideCorners[ind + 1][1] - 1
        b == 2 * SideCorners[ind + 1][2] - 1
    IN <<AlongSide(cubeside, n, a, 0), AlongSide(cubeside, n, 0, b),
         AlongSide(cubeside, n, a, b)>>

\* PackedVertex::pack: the 32-bit word and the byte of a vertex
Pack(x, y, z, corner, al, bl, u, v) == <<<<x, y, z, corner, al, bl>>, <<u, v>>>>

AMB_CHANGES == <<0, 4, 6, 8>>
\* u8 - u8 as a release build computes it
Sub8(a, b) == (a - b + Byte) % Byte
Clamp(x, lo, hi) == IF x < lo THEN lo ELSE IF x > hi THEN hi ELSE x

\* (v[3] - AMB_CHANGES[amb_change]).clamp(0, 16)
VertexLight(base, amb_change) ==
    Clamp(Sub8(base, AMB_CHANGES[amb_change + 1]), 0, MaxLight)

\* blockat: the block the generator puts at a spot
Blockat(spot) == terrain[spot]

\* blockatmemo over a set of spots: what is not in the memo yet is sampled
\* and stored
BlockAtMemo(memo, spots) ==
    [s \in (DOMAIN memo) \cup spots |->
        IF s \in DOMAIN memo THEN memo[s] ELSE Blockat(s)]

\* mutant of OpaqueFaceShown: only a face towards an empty voxel is shown
OpaqueFaceShown_EmptyOnly(neigh_block) == neigh_block = 0

\* the face of an opaque block is emitted
OpaqueFaceShown(neigh_block) ==
    neigh_block = 0 \/ IsTransparent(neigh_block) \/ IsSemiTransparent(neigh_block)

\* the face of a transparent or semi-transparent block is emitted
TransparentFaceShown(block, neigh_block) ==
    \/ neigh_block = 0
    \/ IsSemiTransparent(neigh_block)
    \/ (block = Water /\ neigh_block # Water /\ IsTransparent(neigh_block))

RECURSIVE Flatten(_)
Flatten(ss) == IF ss = <<>> THEN <<>> ELSE Head(ss) \o Flatten(Tail(ss))

\* amb_change of a vertex: the spots around it that are not empty
AmbChange(memo, spot, cubeside, ind) ==
    Cardinality({n \in 1 .. 3 :
                    memo[Add3(GetAmbOcculSpots(cubeside, ind)[n], spot)] # 0})

\* the six packed vertices of a face in the transparent stream
TransparentQuad(i, j, k, block, cubeside, light) ==
    [n \in 1 .. 6 |->
        LET v == GetSide(cubeside, light)[n - 1]
            texcoord == GetTexCoords(block, cubeside)
        IN Pack(i + v[1], j + v[2], k + v[3], n - 1, v[4], 0,
                texcoord[1], texcoord[2])]

\* the six packed vertices of a face in the opaque stream
OpaqueQuad(memo, spot, i, j, k, block, cubeside, light) ==
    [n \in 1 .. 6 |->
        LET v == GetSide(cubeside, light)[n - 1]
            texcoord == GetTexCoords(block, cubeside)
        IN Pack(i + v[1], j + v[2], k + v[3], n - 1,
                VertexLight(v[4], AmbChange(memo, spot, cubeside, n - 1)), 0,
                texcoord[1], texcoord[2])]

\* a vertex of the face whose deduction is larger than its light
Underflows(memo, spot, cubeside, light) ==
    \E ind \in 0 .. 5 :
        light < AMB_CHANGES[AmbChange(memo, spot, cubeside, ind) + 1]

ChunkGeoNew == [data32 |-> <<>>, data8 |-> <<>>, tdata32 |-> <<>>, tdata8 |-> <<>>]

\* the ChunkGeo of a slot: empty streams until its first rebuild
GeoAt(bank, index) == IF index \in DOMAIN bank THEN bank[index] ELSE ChunkGeoNew

\* mutant of Clear: the streams keep what they hold
Clear_Kept(geo) == geo

\* ChunkGeo::clear
Clear(geo) == ChunkGeoNew

Words(quads) == [n \in DOMAIN quads |-> quads[n][1]]
Bytes(quads) == [n \in DOMAIN quads |-> quads[n][2]]

\* the body of the loops over i, k and j for one voxel; acc holds the memo,
\* the streams and whether a subtraction went below zero
MeshVoxel(acc, pos, i, j, k, light) ==
    LET spot == <<pos[1] * CW + i, j, pos[2] * CW + k>>
        memo1 == BlockAtMemo(acc.memo, {spot})
        block == memo1[spot]
        memo2 == BlockAtMemo(memo1, {Add3(spot, GetNeighbors[c]) : c \in CubeSides})
        Neigh(c) == memo2[Add3(spot, GetNeighbors[c])]
        shown == {c \in CubeSides : OpaqueFaceShown(Neigh(c))}
        memo3 == BlockAtMemo(memo2,
                     {Add3(GetAmbOcculSpots(c, ind)[n], spot) :
                         c \in shown, ind \in 0 .. 5, n \in 1 .. 3})
        tquads == Flatten([n \in 1 .. 6 |->
                     IF TransparentFaceShown(block, Neigh(n - 1))
                     THEN TransparentQuad(i, j, k, block, n - 1, light)
                     ELSE <<>>])
        oquads == Flatten([n \in 1 .. 6 |->
                     IF n - 1 \in shown
                     THEN OpaqueQuad(memo3, spot, i, j, k, block, n - 1, light)
                     ELSE <<>>])
    IN IF block = 0 THEN [acc EXCEPT !.memo = memo1]
       ELSE IF IsTransparent(block) \/ IsSemiTransparent(block)
       THEN [acc EXCEPT !.memo = memo2,
                        !.geo.tdata32 = @ \o Words(tquads),
                        !.geo.tdata8 = @ \o Bytes(tquads)]
       ELSE [acc EXCEPT !.memo = memo3,
                        !.geo.data32 = @ \o Words(oquads),
                        !.geo.data8 = @ \o Bytes(oquads),
                        !.underflow = @ \/ \E c \in shown :
                                              Underflows(memo3, spot, c, light)]

\* the voxels of the slot in the order of the loops: i, then k, then j
MeshVoxels == MeshW * MeshW * MeshH
VoxelI(n) == (n - 1) \div (MeshW * MeshH)
VoxelK(n) == ((n - 1) \div MeshH) % MeshW
VoxelJ(n) == (n - 1) % MeshH

RECURSIVE MeshFrom(_, _, _, _)
MeshFrom(acc, pos, n, light) ==
    IF n > MeshVoxels THEN acc
    ELSE MeshFrom(MeshVoxel(acc, pos, VoxelI(n), VoxelJ(n), VoxelK(n), light),
                  pos, n + 1, light)

\* the meshing part of rebuild_index: the slot's streams are cleared and
\* filled again with a memo of their own
Mesh(geo, pos, light) ==
    MeshFrom([memo |-> <<>>, geo |-> Clear(geo), underflow |-> FALSE],
             pos, 1, light)

\* the spots the mesher of the slot at <<0, 0>> samples
MeshRegion ==
    {<<x, y, z>> : x \in -1 .. MeshW, y \in -1 .. MeshH, z \in -1 .. MeshW}
MeshedSpots ==
    {<<x, y, z>> : x \in 0 .. (MeshW - 1), y \in 0 .. (MeshH - 1),
                   z \in 0 .. (MeshW - 1)}
MeshPos == <<0, 0>>
\* the light levels of a side
LightLevels == {5, MaxLight}

\* no call of the slot pool is in progress
NoCall == [pc |-> "idle"]

\* the renderer is between two frames and nothing has been published
FrameIdle ==
    /\ finished_user_geo_queue = <<>>
    /\ finished_geo_queue = <<>>
    /\ chunk_memories = <<>>
    /\ rpc = "idle"
    /\ published = 0
    /\ frameStart = {}
    /\ served = <<>>

WorkerIds == 1 .. (MaxRegens + 1)

\* Game::new: no worker yet, the flag set
GameNew ==
    /\ run_chunk_thread = TRUE
    /\ chunk_thread = 0
    /\ workers = [w \in WorkerIds |-> [pc |-> "unborn", saw |-> 0]]
    /\ loader = "none"
    /\ gpc = [pc |-> "new", seed |-> 0, nt |-> 0]
    /\ client_seed = 0
    /\ client_planet_type = 0
    /\ client_nsme = 0
    /\ resets = 0

\* nothing was sent to or received from a server
NetIdle ==
    /\ netconn_sent = <<>>
    /\ server_command_queue = <<>>
    /\ sends = 0
    /\ foreign = 0

\* a client in single-player mode, constructed and not started
ClientIdle ==
    /\ in_multiplayer = FALSE
    /\ client_udm = <<>>
    /\ NetIdle
    /\ GameNew

\* no mesher is looked at: nothing but air, and empty streams
MeshIdle ==
    /\ terrain = [s \in MeshRegion |-> 0]
    /\ sideLight = MaxLight
    /\ geobank = <<>>
    /\ prevGeo = ChunkGeoNew
    /\ rebuilds = 0
    /\ geoqueue = <<>>
    /\ call = NoCall
    /\ FrameIdle

\* terrain with any blocks in the meshed voxels and at most MaxPlaced
\* occupied voxels around them
Terrains ==
    {[s \in MeshRegion |->
         IF s \in MeshedSpots THEN inner[s]
         ELSE IF \E n \in 1 .. MaxPlaced : placed[n][1] = s
         THEN placed[CHOOSE n \in 1 .. MaxPlaced : placed[n][1] = s][2]
         ELSE 0] :
       inner \in [MeshedSpots -> MeshBlocks],
       placed \in [1 .. MaxPlaced -> (MeshRegion \ MeshedSpots) \X MeshBlocks]}

\* mutant of Publish: the slot is announced twice
Publish_Twice(q, index) == q \o <<index, index>>

\* gqarc.push(index): the slot's geometry is announced as ready
Publish(q, index) == Append(q, index)

\* the outcome of a rebuild of slot index that now stands at pos: the
\* thread panics at a subtraction below zero (overflow checks on), or the
\* rebuild completes
Rebuilt(r, index) ==
    LET m == Mesh(GeoAt(geobank, index), r.chunks[index].pos, sideLight) IN
    \/ /\ m.underflow
       /\ wpc' = "panicked"
       /\ chunks' = r.chunks
       /\ takencare' = [p \in DOMAIN takencare \cap DOMAIN r.takencare |-> takencare[p]]
       /\ geobank' = MapPut(geobank, index, m.geo)
       /\ UNCHANGED <<prevGeo, rebuilds, geoqueue>>
    \/ /\ wpc' = wpc
       /\ chunks' = r.chunks
       /\ takencare' = r.takencare
       /\ geobank' = MapPut(geobank, index, m.geo)
       /\ prevGeo' = GeoAt(geobank, index)
       /\ rebuilds' = rebuilds + 1
       /\ geoqueue' = Publish(geoqueue, index)

meshFrame == <<radius, terrain, sideLight, light_rebuild_requests,
               user_rebuild_requests, gen_rebuild_requests,
               background_rebuild_requests, userWaited, camChunk,
               last_user_c_pos, timeElapsed, neededspots,
               sorted_chunk_facades, nsIndex, checks, pendAtLast, poppedInPass,
               clientVars>>

\* move_and_rebuild(0, MeshPos)
MeshMove ==
    /\ wpc # "panicked"
    /\ MeshPos \notin DOMAIN takencare
    /\ Rebuilt(MoveAndRebuild(chunks, takencare, 0, MeshPos), 0)
    /\ UNCHANGED <<meshFrame, call, frameVars>>
    /\ UNCHANGED serverVars

\* rebuild_index of the slot that holds MeshPos
MeshRebuild ==
    /\ wpc # "panicked"
    /\ MeshPos \in DOMAIN takencare
    /\ rebuilds < MaxRebuilds
    /\ LET index == takencare[MeshPos].geo_index IN
       Rebuilt(RebuildIndex(chunks, takencare, index), index)
    /\ UNCHANGED <<meshFrame, call, frameVars>>
    /\ UNCHANGED serverVars

Init == ChunkInit /\ MeshIdle /\ ClientIdle /\ ServerInit

MeshInit ==
    /\ ChunkInit
    /\ ServerInit
    /\ terrain \in Terrains
    /\ sideLight \in LightLevels
    /\ geobank = <<>>
    /\ prevGeo = ChunkGeoNew
    /\ rebuilds = 0
    /\ geoqueue = <<>>
    /\ call = NoCall
    /\ FrameIdle
    /\ ClientIdle

MeshNext == MeshMove \/ MeshRebuild

SpecMesh == MeshInit /\ [][MeshNext]_vars

----------------------------------------------------------------------------
(***************************************************************************)
(* move_and_rebuild and rebuild_index of chunk.rs, statement by statement. *)
(* takencare and geoqueue are lock-free, so every statement that changes   *)
(* them is a step other threads can see; the slot's facade and streams are *)
(* changed under their mutexes.                                            *)
(***************************************************************************)
\* the slots and coordinates the calls are made with
CallSlots == {0, 1}
SlotCoords == {<<0, 0>>, <<1, 0>>}

\* the spots the mesher samples for a slot at pos
RegionOf(pos) ==
    {<<pos[1] * CW + x, y, pos[2] * CW + z>> :
        x \in -1 .. MeshW, y \in -1 .. MeshH, z \in -1 .. MeshW}

\* one block in the first voxel of each chunk, air around it
SlotTerrains ==
    {[s \in UNION {RegionOf(p) : p \in SlotCoords} |->
        IF s = <<0, 0, 0>> THEN b[1]
        ELSE IF s = <<CW, 0, 0>> THEN b[2] ELSE 0] :
       b \in {1, Water} \X {1, Water}}

Call(pc, index, cpos, oldpos, moved, direct, from) ==
    [pc |-> pc, index |-> index, cpos |-> cpos, oldpos |-> oldpos,
     moved |-> moved, direct |-> direct, from |-> from]

\* history: the pool, the index and the ready queue when the call began
CallFrom == [chunks |-> chunks, takencare |-> takencare, geoqueue |-> geoqueue,
             geobank |-> geobank]

slotFrame == <<radius, terrain, sideLight, prevGeo, rebuilds, frameVars, clientVars,
               light_rebuild_requests, user_rebuild_requests,
               gen_rebuild_requests, background_rebuild_requests, userWaited,
               wpc, camChunk, last_user_c_pos, timeElapsed, neededspots,
               sorted_chunk_facades, nsIndex, checks, pendAtLast, poppedInPass>>

\* move_and_rebuild(index, cpos) is entered: tc.contains_key(&cpos) decides
\* between moving the slot and rebuilding the slot that holds cpos
MoveAndRebuildCall(index, cpos) ==
    /\ call.pc = "idle"
    /\ Len(geoqueue) < MaxReady
    /\ call' = IF cpos \notin DOMAIN takencare
               THEN Call("remove", index, cpos, chunks[index].pos, TRUE,
                         FALSE, CallFrom)
               ELSE Call("rebuild", takencare[cpos].geo_index, cpos,
                         chunks[takencare[cpos].geo_index].pos, FALSE,
                         FALSE, CallFrom)
    /\ UNCHANGED <<chunks, takencare, geobank, geoqueue, slotFrame>>
    /\ UNCHANGED serverVars

\* tc.remove(&chunklock.pos) when the old coordinate is listed
MoveRemove ==
    /\ call.pc = "remove"
    /\ takencare' = DropOldMapping(takencare, chunks[call.index].pos)
    /\ call' = [call EXCEPT !.pc = "setpos"]
    /\ UNCHANGED <<chunks, geobank, geoqueue, slotFrame>>
    /\ UNCHANGED serverVars

\* chunklock.pos = cpos (and the same for the slot's ChunkGeo)
MoveSetPos ==
    /\ call.pc = "setpos"
    /\ chunks' = [chunks EXCEPT ![call.index].pos = call.cpos]
    /\ call' = [call EXCEPT !.pc = "rebuild"]
    /\ UNCHANGED <<takencare, geobank, geoqueue, slotFrame>>
    /\ UNCHANGED serverVars

\* rebuild_index(index) is entered from a request queue, for a resident slot
RebuildIndexCall(index) ==
    /\ call.pc = "idle"
    /\ Len(geoqueue) < MaxReady
    /\ chunks[index].pos \in DOMAIN takencare
    /\ call' = Call("rebuild", index, chunks[index].pos, chunks[index].pos,
                    FALSE, TRUE, CallFrom)
    /\ UNCHANGED <<chunks, takencare, geobank, geoqueue, slotFrame>>
    /\ UNCHANGED serverVars

\* chunklock.used = true, geobanklock.clear() and the meshing loops, under
\* the locks of the slot; a subtraction below zero panics
RebuildMesh ==
    /\ call.pc = "rebuild"
    /\ LET m == Mesh(GeoAt(geobank, call.index), chunks[call.index].pos, sideLight) IN
       /\ chunks' = [chunks EXCEPT ![call.index].used = TRUE]
       /\ geobank' = MapPut(geobank, call.index, m.geo)
       /\ call' = [call EXCEPT !.pc = IF m.underflow THEN "panicked" ELSE "push"]
    /\ UNCHANGED <<takencare, geoqueue, slotFrame>>
    /\ UNCHANGED serverVars

\* gqarc.push(index)
RebuildPush ==
    /\ call.pc = "push"
    /\ geoqueue' = Publish(geoqueue, call.index)
    /\ call' = [call EXCEPT !.pc = "insert"]
    /\ UNCHANGED <<chunks, takencare, geobank, slotFrame>>
    /\ UNCHANGED serverVars

\* tc.insert(chunklock.pos, *chunklock) when the coordinate is not listed;
\* the call returns
RebuildInsert ==
    /\ call.pc = "insert"
    /\ LET pos == chunks[call.index].pos IN
       takencare' = IF pos \in DOMAIN takencare THEN takencare
                    ELSE MapPut(takencare, pos, chunks[call.index])
    /\ call' = [call EXCEPT !.pc = "returned"]
    /\ UNCHANGED <<chunks, geobank, geoqueue, slotFrame>>
    /\ UNCHANGED serverVars

\* the caller goes on to its next call
CallReturn ==
    /\ call.pc = "returned"
    /\ call' = NoCall
    /\ UNCHANGED <<chunks, takencare, geobank, geoqueue, slotFrame>>
    /\ UNCHANGED serverVars

SlotsInit ==
    /\ ChunkInit
    /\ ServerInit
    /\ terrain \in SlotTerrains
    /\ sideLight = MaxLight
    /\ geobank = <<>>
    /\ prevGeo = ChunkGeoNew
    /\ rebuilds = 0
    /\ geoqueue = <<>>
    /\ call = NoCall
    /\ FrameIdle
    /\ ClientIdle

SlotsNext ==
    \/ \E index \in CallSlots, cpos \in SlotCoords : MoveAndRebuildCall(index, cpos)
    \/ MoveRemove
    \/ MoveSetPos
    \/ \E index \in CallSlots : RebuildIndexCall(index)
    \/ RebuildMesh
    \/ RebuildPush
    \/ RebuildInsert
    \/ CallReturn

SpecSlots == SlotsInit /\ [][SlotsNext]_vars

----------------------------------------------------------------------------
(***************************************************************************)
(* Game::draw: the render thread takes ready notifications and uploads the *)
(* geometry of their slots.  The rebuilds that publish the notifications   *)
(* belong to the library ChunkSystem.                                      *)
(***************************************************************************)
\* a ready notification; n numbers the notifications in the order published
Ready(geo_index, newlength, newtlength, newpos, n) ==
    [geo_index |-> geo_index, newlength |-> newlength,
     newtlength |-> newtlength, newpos |-> newpos, n |-> n]

\* lengths of a stream: one or two faces
StreamLengths == {6, 12}

Numbers(q) == {q[i].n : i \in DOMAIN q}
Queued == Numbers(finished_user_geo_queue) \cup Numbers(finished_geo_queue)

frameRest == <<radius, chunks, takencare, terrain, sideLight, geobank, prevGeo,
               rebuilds, geoqueue, call, light_rebuild_requests,
               user_rebuild_requests, gen_rebuild_requests,
               background_rebuild_requests, userWaited, wpc, camChunk,
               last_user_c_pos, timeElapsed, neededspots,
               sorted_chunk_facades, nsIndex, checks, pendAtLast, poppedInPass,
               clientVars>>

\* a rebuild of the worker finishes and publishes its geometry, with user
\* priority or without
PublishReady(index, user_power) ==
    /\ published < MaxPublished
    /\ \E len \in StreamLengths, pos \in SlotCoords :
          LET ready == Ready(index, len, 0, pos, published + 1) IN
          IF user_power
          THEN /\ finished_user_geo_queue' = Append(finished_user_geo_queue, ready)
               /\ UNCHANGED finished_geo_queue
          ELSE /\ finished_geo_queue' = Append(finished_geo_queue, ready)
               /\ UNCHANGED finished_user_geo_queue
    /\ published' = published + 1
    /\ UNCHANGED <<chunk_memories, rpc, frameStart, served, frameRest>>
    /\ UNCHANGED serverVars

\* the memory of the slot takes the lengths and the coordinate and is
\* marked used; bind_geometry uploads the streams
Upload(mem, ready) ==
    MapPut(mem, ready.geo_index,
           [length |-> ready.newlength, tlength |-> ready.newtlength,
            pos |-> ready.newpos, used |-> TRUE])

\* draw is entered
FrameStart ==
    /\ rpc = "idle"
    /\ rpc' = "user"
    /\ frameStart' = Queued
    /\ UNCHANGED <<finished_user_geo_queue, finished_geo_queue, chunk_memories,
                   published, served, frameRest>>
    /\ UNCHANGED serverVars

\* pop of finished_user_geo_queue at `next` when one is there
PopUser(some, none) ==
    IF finished_user_geo_queue = <<>>
    THEN /\ rpc' = none
         /\ UNCHANGED <<finished_user_geo_queue, chunk_memories, served>>
    ELSE /\ rpc' = some
         /\ finished_user_geo_queue' = Tail(finished_user_geo_queue)
         /\ chunk_memories' = Upload(chunk_memories, Head(finished_user_geo_queue))
         /\ served' = Append(served, Head(finished_user_geo_queue).n)

\* match ugqarc.pop(): one notification with user priority, if any
DrawUser ==
    /\ rpc = "user"
    /\ PopUser("geo", "geo")
    /\ UNCHANGED <<finished_geo_queue, published, frameStart, frameRest>>
    /\ UNCHANGED serverVars

\* match gqarc.pop(): one other notification, if any; only then the loop
\* over the notifications with user priority follows
DrawGeo ==
    /\ rpc = "geo"
    /\ IF finished_geo_queue = <<>>
       THEN /\ rpc' = "end"
            /\ UNCHANGED <<finished_geo_queue, chunk_memories, served>>
       ELSE /\ rpc' = "userstuff"
            /\ finished_geo_queue' = Tail(finished_geo_queue)
            /\ chunk_memories' = Upload(chunk_memories, Head(finished_geo_queue))
            /\ served' = Append(served, Head(finished_geo_queue).n)
    /\ UNCHANGED <<finished_user_geo_queue, published, frameStart, frameRest>>
    /\ UNCHANGED serverVars

\* while userstuff: pops until finished_user_geo_queue is found empty
DrawUserStuff ==
    /\ rpc = "userstuff"
    /\ PopUser("userstuff", "end")
    /\ UNCHANGED <<finished_geo_queue, published, frameStart, frameRest>>
    /\ UNCHANGED serverVars

\* the rest of draw: the frame is rendered
FrameEnd ==
    /\ rpc = "end"
    /\ rpc' = "idle"
    /\ UNCHANGED <<finished_user_geo_queue, finished_geo_queue, chunk_memories,
                   published, frameStart, served, frameRest>>
    /\ UNCHANGED serverVars

FrameNext ==
    \/ \E index \in CallSlots, user_power \in BOOLEAN : PublishReady(index, user_power)
    \/ FrameStart
    \/ DrawUser
    \/ DrawGeo
    \/ DrawUserStuff
    \/ FrameEnd

SpecFrame == Init /\ [][FrameNext]_vars

----------------------------------------------------------------------------
(***************************************************************************)
(* The client: block breaks and placements of the player, and the          *)
(* commands received from the server (Game::cast_break_ray,                *)
(* Game::cast_place_ray, Game::update).                                    *)
(***************************************************************************)
ClientSpots == {<<0, 0, 0>>, <<1, 0, 0>>, <<2, 0, 0>>}
ClientBlocks == {0, 5, ChainBlock}
PlaceIds == ClientBlocks \ {0}

\* ChunkSystem::blockat of the client: air where nothing was set
ClientBlockAt(u, spot) == IF spot \in DOMAIN u THEN u[spot] ELSE 0

\* the stack of delete_block_recursively after the neighbours with the id
\* were pushed
PushNeighbors(u, id, current, stack) ==
    LET neighbor_pos == [n \in 1 .. 6 |-> Add3(GetNeighbors[n - 1], current)]
    IN stack \o SelectSeq(neighbor_pos, LAMBDA p : ClientBlockAt(u, p) = id)

\* Game::delete_block_recursively: the block of the top of the stack is
\* removed and its neighbours with the id are pushed, until the stack is empty
RECURSIVE DeleteBlockRecursively(_, _, _)
DeleteBlockRecursively(u, id, stack) ==
    IF stack = <<>> THEN u
    ELSE LET current == stack[Len(stack)]
             rest == SubSeq(stack, 1, Len(stack) - 1)
         IN IF ClientBlockAt(u, current) # 0
            THEN DeleteBlockRecursively(SetBlock(u, current, 0), id,
                     PushNeighbors(SetBlock(u, current, 0), id, current, rest))
            ELSE DeleteBlockRecursively(u, id, rest)

\* netconn.send(&message)
NetSend(message) ==
    /\ netconn_sent' = Append(netconn_sent, message)
    /\ sends' = sends + 1

clientRest == <<radius, chunks, takencare, terrain, sideLight, geobank, prevGeo,
                rebuilds, geoqueue, call, light_rebuild_requests,
                user_rebuild_requests, gen_rebuild_requests,
                background_rebuild_requests, userWaited, wpc, camChunk,
                last_user_c_pos, timeElapsed, neededspots,
                sorted_chunk_facades, nsIndex, checks, pendAtLast, poppedInPass,
                frameVars, serverVars>>

\* the ray of a block break hits block_hit
CastBreakRay(block_hit) ==
    LET blockat == ClientBlockAt(client_udm, block_hit) IN
    /\ blockat # 0
    /\ (in_multiplayer /\ blockat # ChainBlock) => sends < MaxSends
    /\ IF blockat = ChainBlock
       THEN /\ client_udm' = DeleteBlockRecursively(client_udm, ChainBlock, <<block_hit>>)
            /\ UNCHANGED <<netconn_sent, sends>>
       ELSE IF in_multiplayer
       THEN /\ NetSend(Message("BlockSet", block_hit, 0))
            /\ UNCHANGED client_udm
       ELSE /\ client_udm' = SetBlock(client_udm, block_hit, 0)
            /\ UNCHANGED <<netconn_sent, sends>>
    /\ UNCHANGED <<in_multiplayer, server_command_queue, foreign, regenVars, clientRest>>

\* the ray of a placement hits block_hit; the block of the selected slot
\* goes to the spot in front of the face that was hit
CastPlaceRay(block_hit, hit_normal, id) ==
    LET place_point == Add3(block_hit, hit_normal) IN
    /\ ClientBlockAt(client_udm, block_hit) # 0
    /\ place_point \in ClientSpots
    /\ in_multiplayer => sends < MaxSends
    /\ IF in_multiplayer
       THEN /\ NetSend(Message("BlockSet", place_point, id))
            /\ UNCHANGED client_udm
       ELSE /\ client_udm' = SetBlock(client_udm, place_point, id)
            /\ UNCHANGED <<netconn_sent, sends>>
    /\ UNCHANGED <<in_multiplayer, server_command_queue, foreign, regenVars, clientRest>>

\* the server relays the oldest message of the client back to it
Deliver ==
    /\ netconn_sent # <<>>
    /\ server_command_queue' = Append(server_command_queue, Head(netconn_sent))
    /\ netconn_sent' = Tail(netconn_sent)
    /\ UNCHANGED <<in_multiplayer, client_udm, sends, foreign, regenVars, clientRest>>

\* the server relays the block mutation of another client
DeliverForeign(spot, block) ==
    /\ in_multiplayer
    /\ foreign < MaxForeign
    /\ server_command_queue' =
           Append(server_command_queue, Message("BlockSet", spot, block))
    /\ foreign' = foreign + 1
    /\ UNCHANGED <<in_multiplayer, client_udm, netconn_sent, sends, regenVars, clientRest>>

\* Game::update: one command of the server is popped and carried out
ClientUpdate ==
    /\ server_command_queue # <<>>
    /\ LET comm == Head(server_command_queue) IN
       client_udm' = IF comm.message_type = "BlockSet"
                     THEN SetBlock(client_udm, comm.spot, comm.info)
                     ELSE client_udm
    /\ server_command_queue' = Tail(server_command_queue)
    /\ UNCHANGED <<in_multiplayer, netconn_sent, sends, foreign, regenVars, clientRest>>

ClientInit ==
    /\ ChunkInit
    /\ MeshIdle
    /\ ServerInit
    /\ in_multiplayer \in BOOLEAN
    /\ client_udm \in [ClientSpots -> ClientBlocks]
    /\ NetIdle
    /\ GameNew

ClientNext ==
    \/ \E block_hit \in ClientSpots : CastBreakRay(block_hit)
    \/ \E block_hit \in ClientSpots, cubeside \in CubeSides, id \in PlaceIds :
           CastPlaceRay(block_hit, GetNeighbors[cubeside], id)
    \/ Deliver
    \/ \E spot \in ClientSpots, block \in ClientBlocks : DeliverForeign(spot, block)
    \/ ClientUpdate

SpecClient == ClientInit /\ [][ClientNext]_vars

----------------------------------------------------------------------------
(***************************************************************************)
(* The client: world regeneration and the life of the rebuild worker       *)
(* (Game::start_world, Game::start_chunks_with_radius,                     *)
(* Game::chunk_thread_function).                                           *)
(***************************************************************************)
Main(pc, seed, nt) == [pc |-> pc, seed |-> seed, nt |-> nt]

\* mutant of JoinReturns: the join does not wait for the worker
JoinReturns_AtOnce(ws, handle) == TRUE

\* handle.join() returns when the thread of the handle has ended
JoinReturns(ws, handle) == ws[handle].pc \in {"exited", "panicked"}

regenRest == <<in_multiplayer, netconn_sent, server_command_queue, sends,
               foreign, clientRest>>

\* Game::start_world: the flag is set, a worker is spawned and its handle kept
StartWorld ==
    /\ gpc.pc \in {"new", "start"}
    /\ \E w \in WorkerIds :
          /\ workers[w].pc = "unborn"
          /\ \A v \in WorkerIds : workers[v].pc = "unborn" => w <= v
          /\ workers' = [workers EXCEPT ![w] = [pc |-> "check", saw |-> resets]]
          /\ chunk_thread' = w
    /\ run_chunk_thread' = TRUE
    /\ gpc' = Main("running", 0, 0)
    /\ UNCHANGED <<loader, client_seed, client_planet_type, client_nsme, resets,
                   client_udm, regenRest>>

\* Game::new_world_func up to the first statement of
\* start_chunks_with_radius: the seed and the world type are decided and the
\* flag is cleared
NewWorldFunc(seed, nt) ==
    /\ gpc.pc = "running"
    /\ resets < MaxRegens
    /\ ~in_multiplayer => nt = (client_planet_type + 1) % 2
    /\ client_seed' = IF in_multiplayer THEN client_seed ELSE seed
    /\ run_chunk_thread' = FALSE
    /\ gpc' = Main("join", seed, nt)
    /\ UNCHANGED <<chunk_thread, workers, loader, client_planet_type,
                   client_nsme, resets, client_udm, regenRest>>

\* if let Some(handle) = self.chunk_thread.take() { handle.join().unwrap() }
Join ==
    /\ gpc.pc = "join"
    /\ IF chunk_thread = 0
       THEN gpc' = [gpc EXCEPT !.pc = "reset"]
       ELSE /\ JoinReturns(workers, chunk_thread)
            /\ gpc' = [gpc EXCEPT !.pc = IF workers[chunk_thread].pc = "panicked"
                                         THEN "panicked" ELSE "reset"]
    /\ chunk_thread' = 0
    /\ UNCHANGED <<run_chunk_thread, workers, loader, client_seed,
                   client_planet_type, client_nsme, resets, client_udm, regenRest>>

\* the mobs are cleared, the chunk system is reset to the seed and the world
\* type, and a single-player world of type 1 gets its mobs
Reset ==
    /\ gpc.pc = "reset"
    /\ client_seed' = gpc.seed
    /\ client_planet_type' = gpc.nt
    /\ client_udm' = <<>>
    /\ client_nsme' = IF ~in_multiplayer /\ gpc.nt = 1 THEN MobsPerSpawn ELSE 0
    /\ resets' = resets + 1
    /\ gpc' = [gpc EXCEPT !.pc = "init"]
    /\ UNCHANGED <<run_chunk_thread, chunk_thread, workers, loader, regenRest>>

\* initialize_being_in_world: the thread of the whole-world rebuild is spawned
InitRebuildSpawn ==
    /\ gpc.pc = "init"
    /\ loader' = "running"
    /\ gpc' = [gpc EXCEPT !.pc = "loading"]
    /\ UNCHANGED <<run_chunk_thread, chunk_thread, workers, client_seed,
                   client_planet_type, client_nsme, resets, client_udm, regenRest>>

\* the whole-world rebuild runs to its end
LoaderRun ==
    /\ loader = "running"
    /\ loader' = "finished"
    /\ UNCHANGED <<run_chunk_thread, chunk_thread, workers, gpc, client_seed,
                   client_planet_type, client_nsme, resets, client_udm, regenRest>>

\* while !threadhandle.is_finished() {}; threadhandle.join()
InitRebuildJoin ==
    /\ gpc.pc = "loading"
    /\ loader = "finished"
    /\ loader' = "none"
    /\ gpc' = [gpc EXCEPT !.pc = "start"]
    /\ UNCHANGED <<run_chunk_thread, chunk_thread, workers, client_seed,
                   client_planet_type, client_nsme, resets, client_udm, regenRest>>

\* while runcheck.load(Ordering::Relaxed)
WorkerCheck(w) ==
    /\ workers[w].pc = "check"
    /\ workers' = [workers EXCEPT ![w] = IF run_chunk_thread
                                         THEN [pc |-> "pass", saw |-> resets]
                                         ELSE [@ EXCEPT !.pc = "exited"]]
    /\ UNCHANGED <<run_chunk_thread, chunk_thread, loader, gpc, client_seed,
                   client_planet_type, client_nsme, resets, client_udm, regenRest>>

\* chunk_thread_inner_function returns, or an unwrap() in it fails
WorkerPass(w) ==
    /\ workers[w].pc = "pass"
    /\ \E next \in {"check", "panicked"} :
          workers' = [workers EXCEPT ![w].pc = next]
    /\ UNCHANGED <<run_chunk_thread, chunk_thread, loader, gpc, client_seed,
                   client_planet_type, client_nsme, resets, client_udm, regenRest>>

RegenInit ==
    /\ ChunkInit
    /\ MeshIdle
    /\ ServerInit
    /\ in_multiplayer \in BOOLEAN
    /\ client_udm = <<>>
    /\ NetIdle
    /\ GameNew

RegenNext ==
    \/ StartWorld
    \/ \E seed \in Seeds, nt \in {0, 1} : NewWorldFunc(seed, nt)
    \/ Join
    \/ Reset
    \/ InitRebuildSpawn
    \/ LoaderRun
    \/ InitRebuildJoin
    \/ \E w \in WorkerIds : WorkerCheck(w)
    \/ \E w \in WorkerIds : WorkerPass(w)

SpecRegen == RegenInit /\ [][RegenNext]_vars


ChunkNext ==
    \/ LightStage
    \/ UserStage
    \/ UserStageLight
    \/ GenStage
    \/ GenStageUser
    \/ GenStageLight
    \/ BackgroundStage
    \/ BackgroundStageUser
    \/ BackgroundStageLight
    \/ BackgroundStageGen
    \/ BackgroundStageGenDrain
    \/ ViewportCheck(MaxChecks)
    \/ Move
    \/ MoveUser
    \/ MoveLight
    \/ MoveGen
    \/ EndPass
    \/ CameraMove
    \/ QueueRerender

SpecChunk == Init /\ [][ChunkNext]_vars

\* The worker with a wide view and a viewer that flies along the diagonal,
\* two chunks between viewport-change checks; nothing else is queued.
CameraFly ==
    /\ camChunk = last_user_c_pos
    /\ checks < MaxFlyChecks
    /\ camChunk' = <<camChunk[1] - 2, camChunk[2] - 2>>
    /\ UNCHANGED <<radius, chunks, takencare, wpc, last_user_c_pos, timeElapsed,
                   neededspots, sorted_chunk_facades, nsIndex, checks,
                   pendAtLast, poppedInPass>>
    /\ UNCHANGED queueVars
    /\ UNCHANGED <<meshVars, serverVars>>

FlyInit == ChunkStart(FlyRadius) /\ MeshIdle /\ ClientIdle /\ ServerInit

FlyNext ==
    \/ LightStage
    \/ UserStage
    \/ GenStage
    \/ BackgroundStage
    \/ ViewportCheck(MaxFlyChecks)
    \/ Move
    \/ MoveUser
    \/ MoveLight
    \/ MoveGen
    \/ CameraFly

SpecFly == FlyInit /\ [][FlyNext]_vars

\* The worker alone: a pass starts with one light, one user, PendGen gen and
\* PendBackground background requests for resident slots, and no producer
\* runs during the pass.
QueuePass ==
    /\ wpc = "light"
    /\ QueuedTotal = 0
    /\ \E a, b \in {takencare[p].geo_index : p \in DOMAIN takencare} :
          /\ light_rebuild_requests' = <<a>>
          /\ user_rebuild_requests' = <<b>>
          /\ gen_rebuild_requests' = [i \in 1 .. PendGen |-> a]
          /\ background_rebuild_requests' = [i \in 1 .. PendBackground |-> b]
    /\ userWaited' = <<0>>
    /\ UNCHANGED <<chunks, takencare, wpc, pendAtLast, poppedInPass>>
    /\ UNCHANGED workerLocals
    /\ UNCHANGED <<radius, meshVars, serverVars>>

PassNext ==
    \/ LightStage
    \/ UserStage
    \/ UserStageLight
    \/ GenStage
    \/ GenStageUser
    \/ GenStageLight
    \/ BackgroundStage
    \/ BackgroundStageUser
    \/ BackgroundStageLight
    \/ BackgroundStageGen
    \/ ViewportCheck(MaxChecks)
    \/ Move
    \/ MoveUser
    \/ MoveLight
    \/ MoveGen
    \/ QueuePass

SpecPass == Init /\ [][PassNext]_vars

\* chunk_thread_function calls the pass in an endless loop: the worker keeps
\* running. The producers queue requests whenever they like.
ChunkThread ==
    \/ LightStage
    \/ UserStage
    \/ UserStageLight
    \/ GenStage
    \/ GenStageUser
    \/ GenStageLight
    \/ BackgroundStage
    \/ BackgroundStageUser
    \/ BackgroundStageLight
    \/ BackgroundStageGen
    \/ BackgroundStageGenDrain
    \/ ViewportCheck(MaxChecks)
    \/ Move
    \/ MoveUser
    \/ MoveLight
    \/ MoveGen
    \/ EndPass

ArrivalsNext == ChunkThread \/ QueueRerender

SpecArrivals == Init /\ [][ArrivalsNext]_vars /\ WF_vars(ChunkThread)

\* A block is edited, or light changes, in a chunk that has a slot: a
\* rerender request for that slot, at any tier.
QueueEdit ==
    /\ QueuedTotal < MaxQueue
    /\ \E p \in DOMAIN takencare, t \in Tiers :
        LET index == takencare[p].geo_index IN
        /\ light_rebuild_requests' =
               IF t = "light" THEN Append(light_rebuild_requests, index)
               ELSE light_rebuild_requests
        /\ user_rebuild_requests' =
               IF t = "user" THEN Append(user_rebuild_requests, index)
               ELSE user_rebuild_requests
        /\ gen_rebuild_requests' =
               IF t = "gen" THEN Append(gen_rebuild_requests, index)
               ELSE gen_rebuild_requests
        /\ background_rebuild_requests' =
               IF t = "background" THEN Append(background_rebuild_requests, index)
               ELSE background_rebuild_requests
        /\ userWaited' = IF t = "user" THEN Append(userWaited, 0) ELSE userWaited
    /\ UNCHANGED <<chunks, takencare, wpc, camChunk, last_user_c_pos, timeElapsed,
                   neededspots, sorted_chunk_facades, nsIndex, checks, pendAtLast,
                   poppedInPass>>
    /\ UNCHANGED <<radius, meshVars, serverVars>>

\* The viewer stays in its chunk; the worker runs, and requests for resident
\* slots arrive whenever they like.
StayNext == ChunkThread \/ QueueEdit

SpecStay == Init /\ [][StayNext]_vars /\ WF_vars(ChunkThread)

SpecServer == Init /\ [][ServerNext]_vars

\* The server with a connection that fails often, and peers that send block
\* mutations or noise.
StrikeBytes ==
    {Serialize(Message("BlockSet", s, 5)) : s \in Spots} \cup {Garbage}

StrikesNext ==
    \/ \E c \in ClientIds : CloneStream(c)
    \/ \E c \in ClientIds : SendId(c)
    \/ \E c \in ClientIds : Read(c, StrikeBytes, MaxStrikes)
    \/ \E c \in ClientIds : Dispatch(c)
    \/ \E c \in ClientIds : RelayLock(c)
    \/ \E c \in ClientIds : Relay(c)
    \/ \E c \in ClientIds : ReadError(c)
    \/ \E c \in ClientIds : Break(c)
    \/ \E c \in ClientIds : ClientClose(c)
    \/ \E c \in ClientIds : ClientReset(c)
    \/ Accept
    \/ Register
    \/ MobLoop
    \/ SpawnCheck

SpecStrikes == Init /\ [][StrikesNext]_vars

\* The server with peers that send several messages each: position updates
\* and block mutations.
OrderBytes ==
    {Serialize(Message("PlayerUpdate", s, 0)) : s \in Spots}
    \cup {Serialize(Message("BlockSet", s, 5)) : s \in Spots}

OrderNext ==
    \/ \E c \in ClientIds : CloneStream(c)
    \/ \E c \in ClientIds : SendId(c)
    \/ \E c \in ClientIds : ReadUpTo(c, OrderBytes, 0, MaxOrderMsgs)
    \/ \E c \in ClientIds : Dispatch(c)
    \/ \E c \in ClientIds : RelayLock(c)
    \/ \E c \in ClientIds : Relay(c)
    \/ \E c \in ClientIds : Break(c)
    \/ \E c \in ClientIds : ClientClose(c)
    \/ Accept
    \/ Register
    \/ MobLoop
    \/ SpawnCheck

SpecOrder == Init /\ [][OrderNext]_vars

----------------------------------------------------------------------------
(***************************************************************************)
(* handle_client write by write: the header and the body of a              *)
(* variable-length message are two write_all calls, and the reset and the  *)
(* save of a regeneration are two calls under the write lock of the world. *)
(***************************************************************************)
ReplyTypes == {"RequestUdm", "RequestSeed", "RequestPt"}
BlobOf(t) == IF t = "RequestUdm" THEN "udm" ELSE IF t = "RequestSeed" THEN "seed" ELSE "pt"

\* mutant of CsysReadable: the world is read without its lock
CsysReadable_Always(pcs) == TRUE

\* csys.read() returns: no handler holds the write lock of the world
CsysReadable(pcs) == \A c \in ClientIds : pcs[c] # "takeoff_save"

\* csys.write() returns: no handler holds the write lock or a read lock
CsysWritable(pcs) == \A c \in ClientIds : pcs[c] \notin {"takeoff_save", "reply_body"}

\* stream.lock() and the YourId header
SendIdHeader(c) ==
    /\ Alive
    /\ hpc[c] = "sendid"
    /\ StreamFree(streamLock, c)
    /\ IF streamPoisoned[c]
       THEN /\ HandlerPanics(c, FALSE, FALSE)
            /\ UNCHANGED wire
       ELSE IF conn[c] = "reset"
       THEN /\ HandlerPanics(c, TRUE, FALSE)
            /\ UNCHANGED wire
       ELSE /\ wire' = WriteHeader(wire, c, iter[c], "YourId", "id", c)
            /\ hpc' = [hpc EXCEPT ![c] = "id_body"]
            /\ SetLocks(clientsLock, clientsPoisoned,
                        [streamLock EXCEPT ![c] = {c}], streamPoisoned)
    /\ UNCHANGED <<clients, worldVars, mainVars, histVars, buffer, todo,
                   should_break, iter, conn, chunkVars>>

\* the id itself
SendIdBody(c) ==
    /\ Alive
    /\ hpc[c] = "id_body"
    /\ IF conn[c] = "reset"
       THEN /\ HandlerPanics(c, TRUE, FALSE)
            /\ UNCHANGED wire
       ELSE /\ wire' = WriteBody(wire, c, iter[c], "id", c)
            /\ hpc' = [hpc EXCEPT ![c] = "read"]
            /\ UNCHANGED lockVars
    /\ UNCHANGED <<clients, worldVars, mainVars, histVars, buffer, todo,
                   should_break, iter, conn, chunkVars>>

\* the arm of a request for a blob: the read lock of the world, the blob of
\* the active seed read from its file, and the header of the reply
ReplyHeader(c) ==
    LET t == Deserialize(buffer[c]).message_type
        reply == IF t = "RequestUdm" THEN "Udm"
                 ELSE IF t = "RequestSeed" THEN "Seed" ELSE "Pt"
    IN
    /\ Alive
    /\ hpc[c] = "dispatch"
    /\ t \in ReplyTypes
    /\ CsysReadable(hpc)
    /\ IF currentseed \notin DOMAIN files \/ conn[c] = "reset"
       THEN /\ HandlerPanics(c, TRUE, FALSE)
            /\ UNCHANGED wire
       ELSE /\ wire' = WriteHeader(wire, c, iter[c], reply, BlobOf(t),
                                   files[currentseed][BlobOf(t)])
            /\ hpc' = [hpc EXCEPT ![c] = "reply_body"]
            /\ UNCHANGED lockVars
    /\ UNCHANGED <<clients, worldVars, mainVars, histVars, buffer, todo,
                   should_break, iter, conn, chunkVars>>

\* the body of the reply; the read lock is dropped at the end of the arm
ReplyBody(c) ==
    LET t == Deserialize(buffer[c]).message_type IN
    /\ Alive
    /\ hpc[c] = "reply_body"
    /\ IF conn[c] = "reset"
       THEN /\ HandlerPanics(c, TRUE, FALSE)
            /\ UNCHANGED wire
       ELSE /\ wire' = WriteBody(wire, c, iter[c], BlobOf(t),
                                 files[currentseed][BlobOf(t)])
            /\ hpc' = [hpc EXCEPT ![c] = "relay_lock"]
            /\ UNCHANGED lockVars
    /\ UNCHANGED <<clients, worldVars, mainVars, histVars, buffer, todo,
                   should_break, iter, conn, chunkVars>>

\* the RequestTakeoff arm up to the flag: the write lock of the world, the
\* reset to a new seed and the next world type, the flag
TakeoffReset(c) ==
    /\ Alive
    /\ hpc[c] = "dispatch"
    /\ Deserialize(buffer[c]).message_type = "RequestTakeoff"
    /\ CsysWritable(hpc)
    /\ \E newseed \in Seeds : currentseed' = newseed
    /\ planet_type' = NextPlanetType(planet_type)
    /\ udm' = <<>>
    /\ udmWriter' = <<>>
    /\ mobspawnqueued' = TRUE
    /\ hpc' = [hpc EXCEPT ![c] = "takeoff_save"]
    /\ UNCHANGED <<files, knowncams, nsme, appliedIter, lockVars, wire>>
    /\ UNCHANGED <<clients, mainVars, histVars, buffer, todo, should_break,
                   iter, conn, chunkVars>>

\* save_current_world_to_file of the new seed; the write lock is dropped at
\* the end of the arm
TakeoffSave(c) ==
    /\ Alive
    /\ hpc[c] = "takeoff_save"
    /\ files' = SaveCurrentWorldToFile(files, currentseed, udm, planet_type)
    /\ hpc' = [hpc EXCEPT ![c] = "relay_lock"]
    /\ UNCHANGED <<udm, currentseed, planet_type, knowncams, mobspawnqueued,
                   nsme, udmWriter, appliedIter, lockVars, wire>>
    /\ UNCHANGED <<clients, mainVars, histVars, buffer, todo, should_break,
                   iter, conn, chunkVars>>

\* the other arms: a block mutation takes the write lock of the world
DispatchOther(c) ==
    LET t == Deserialize(buffer[c]).message_type IN
    /\ t \notin ReplyTypes \cup {"RequestTakeoff"}
    /\ t = "BlockSet" => CsysWritable(hpc)
    /\ Dispatch(c)

\* chunksys.read() of the spawn check
SpawnCheckLocked == CsysReadable(hpc) /\ SpawnCheck

FineNext ==
    \/ \E c \in ClientIds : CloneStream(c)
    \/ \E c \in ClientIds : SendIdHeader(c)
    \/ \E c \in ClientIds : SendIdBody(c)
    \/ \E c \in ClientIds : Read(c, ClientBytes, 0)
    \/ \E c \in ClientIds : ReplyHeader(c)
    \/ \E c \in ClientIds : ReplyBody(c)
    \/ \E c \in ClientIds : TakeoffReset(c)
    \/ \E c \in ClientIds : TakeoffSave(c)
    \/ \E c \in ClientIds : DispatchOther(c)
    \/ \E c \in ClientIds : RelayLock(c)
    \/ \E c \in ClientIds : Relay(c)
    \/ \E c \in ClientIds : Break(c)
    \/ \E c \in ClientIds : ClientClose(c)
    \/ Accept
    \/ Register
    \/ MobLoop
    \/ MobSend
    \/ SpawnCheckLocked

SpecFine == Init /\ [][FineNext]_vars

----------------------------------------------------------------------------
(***************************************************************************)
(* Claims about the slot pool and the scheduler (SpecChunk).               *)
(***************************************************************************)

\* C1: no two occupied slots hold the same chunk coordinate, every entry of
\* takencare lists a slot under that slot's current coordinate, and no slot
\* is listed under two coordinates.
C1_NoDoubleAssignment ==
    /\ \A i \in Slots :
          chunks[i].used =>
              \A j \in Slots \ {i} :
                  chunks[j].used => chunks[i].pos # chunks[j].pos
    /\ \A p \in DOMAIN takencare :
          /\ chunks[takencare[p].geo_index].pos = p
          /\ takencare[p].pos = p
    /\ \A p, q \in DOMAIN takencare :
          p # q => takencare[p].geo_index # takencare[q].geo_index

\* a slot that was occupied has just been moved to a new coordinate
C1_Witness ==
    /\ wpc = "move_user"
    /\ sorted_chunk_facades[nsIndex].used
    /\ sorted_chunk_facades[nsIndex].pos \notin DOMAIN takencare
    /\ chunks[sorted_chunk_facades[nsIndex].geo_index].pos = neededspots[nsIndex]
    /\ neededspots[nsIndex] \in DOMAIN takencare

\* C2: the worker never starts rebuilding a request of tier t while a
\* request of a higher tier, pending since the previous rebuild of the pass
\* finished, is still queued.
C2_StrictTierOrder ==
    [][\A t \in Tiers :
          Len(Queue(t)') < Len(Queue(t)) => (Higher(t) \cap pendAtLast) = {}]_vars

\* C3: a queued user request sees at most one further gen-tier rebuild
\* before it is rebuilt itself; counted from the moment it is the oldest
\* queued user request, so that no other user request delays it.
C3_UserNotStuckBehindGen ==
    \A i \in DOMAIN userWaited : userWaited[i] <= 1

----------------------------------------------------------------------------
(***************************************************************************)
(* The relay server.                                                       *)
(***************************************************************************)
Count(w, e) == Cardinality({i \in DOMAIN w : w[i] = e})

IsIdHeader(e, c) ==
    /\ e.tag = "header"
    /\ e.src = c
    /\ Deserialize(e.bytes).message_type = "YourId"

\* the copy of the message that handler c relays in its current iteration
Relayed(c) == RelayEntry(c, iter[c], buffer[c])

RelayCompletes(c) == hpc[c] = "relay" /\ hpc'[c] = "top"

\* C4: the identity-assignment message is sent once per session: a
\* connection never carries more than one YourId header.
C4_IdentitySentOnce ==
    \A c \in ClientIds :
        Cardinality({i \in DOMAIN wire[c] : IsIdHeader(wire[c][i], c)}) <= 1

\* C5: the identity-assignment message is the first thing written to a
\* connection, whatever other handlers and the mob broadcast do.
C5_IdentityFirst ==
    \A c \in ClientIds : wire[c] # <<>> => IsIdHeader(wire[c][1], c)

C8_FaultsStayLocal ==
    /\ \A d \in ClientIds : hpc[d] = "panicked" => faulted[d]
    /\ mpc # "panicked"

\* C9: a handler blocked in its socket read stalls no other thread: no
\* handler's redistribution and no broadcast waits for the stream of a
\* client whose read is pending.
C9_PendingReadStallsNobody ==
    \A c \in ClientIds :
        (hpc[c] = "read" /\ streamLock[c] = {c})
        => /\ \A d \in ClientIds \ {c} :
                 ~(hpc[d] = "relay" /\ Head(todo[d]) = c)
           /\ ~(mpc = "mobsend" /\ mtodo # <<>> /\ Head(mtodo) = c)

C11_ConsecutiveFaultsOnly ==
    \A c \in ClientIds :
        (should_break[c] /\ ~cleanClosed[c]) => consecFaults[c] > StrikeLimit
\* C12: a viewport-change check reassigns only slots that are unused or
\* beyond the eviction distance from the viewer, and it never fails.
C12_OnlyEvictable ==
    [][/\ wpc' # "panicked"
       /\ (wpc = "move" /\ wpc' = "move_user"
           /\ neededspots[nsIndex] \notin DOMAIN takencare)
          => UnusedOrDistant(chunks[sorted_chunk_facades[nsIndex].geo_index],
                             last_user_c_pos)]_vars
\* C13: in a pass that starts with 1 light, 1 user, 5 gen and 10 background
\* requests and no producer, no gen request is rebuilt before the light
\* and the user request are.
C13_LightAndUserBeforeGen ==
    [][Len(gen_rebuild_requests') < Len(gen_rebuild_requests)
       => (light_rebuild_requests = <<>> /\ user_rebuild_requests = <<>>)]_vars

C13_Witness ==
    /\ Len(gen_rebuild_requests) = PendGen - 1
    /\ Len(background_rebuild_requests) = PendBackground
    /\ light_rebuild_requests = <<>>
    /\ user_rebuild_requests = <<>>

\* C14: a pending background-tier request is popped and rebuilt by the running
\* worker, also while user- or gen-tier requests keep arriving.
C14_BackgroundRevisited ==
    (background_rebuild_requests # <<>>) ~> (wpc = "bg_user")

\* the body bytes that follow entry i of a connection's log
FollowingBytes(w, i) ==
    IF i < Len(w) /\ w[i + 1].tag = "body"
    THEN BodySize(w[i + 1].of, w[i + 1].payload)
    ELSE 0

\* C15: for every message written to a connection, the length that its header
\* declares (the unsigned field the server fills with serialized_size) equals
\* the number of body bytes that follow it; fixed-size messages have no body.
C15_DeclaredLengthMatches ==
    \A c \in ClientIds :
        \A i \in DOMAIN wire[c] :
            LET e == wire[c][i] IN
            (e.tag # "body" /\ e.bytes.ok)
                => Deserialize(e.bytes).info = FollowingBytes(wire[c], i)

\* C16: while a handler works on bytes that do not decode (the match and
\* the redistribution), its steps change neither the world (blocks, seed, world
\* type, saved blobs, position map) nor the session set and its fault
\* counters, and the handler does not head for removal.
C16_UndecodableIsNoOp ==
    [][\A c \in ClientIds :
          (/\ hpc[c] \in {"dispatch", "relay_lock", "relay"}
           /\ ~buffer[c].ok
           /\ (hpc'[c] # hpc[c] \/ todo'[c] # todo[c]))
          => /\ <<udm, currentseed, planet_type, files, knowncams>>'
                   = <<udm, currentseed, planet_type, files, knowncams>>
             /\ clients' = clients
             /\ conn' = conn
             /\ ~should_break'[c]
             /\ hpc'[c] \notin {"brk", "done"}]_vars

\* undecodable bytes were read, handled and redistributed; the client is still
\* in the session set and its connection is open
C16_Witness ==
    \E c \in ClientIds :
        /\ sent[c] > 0
        /\ ~buffer[c].ok
        /\ hpc[c] = "top"
        /\ c \in DOMAIN clients
        /\ conn[c] = "open"
        /\ \E i \in DOMAIN wire[c] :
              wire[c][i].tag = "relay" /\ ~wire[c][i].bytes.ok

MeshedGeo == GeoAt(geobank, takencare[MeshPos].geo_index)

IsOpaque(b) == b # 0 /\ ~IsTransparent(b) /\ ~IsSemiTransparent(b)
IsLiquid(b) == b = Water

\* quad q of a stream is side c of the voxel at v, which holds block b
QuadIs(words, bytes, q, v, c, b) ==
    \A ind \in 0 .. 5 :
        LET w == words[6 * q + ind + 1]
            o == GetSide(c, sideLight)[ind]
        IN /\ <<w[1], w[2], w[3]>> = <<v[1] + o[1], v[2] + o[2], v[3] + o[3]>>
           /\ w[4] = ind
           /\ bytes[6 * q + ind + 1] = GetTexCoords(b, c)

Quads(words, bytes, v, c, b) ==
    {q \in 0 .. ((Len(words) \div 6) - 1) : QuadIs(words, bytes, q, v, c, b)}

OpaqueFaceDue(b, nb) ==
    IsOpaque(b) /\ (nb = 0 \/ IsTransparent(nb) \/ IsSemiTransparent(nb))
TransparentFaceDue(b, nb) ==
    /\ IsTransparent(b) \/ IsSemiTransparent(b)
    /\ \/ nb = 0
       \/ IsSemiTransparent(nb)
       \/ (IsLiquid(b) /\ IsTransparent(nb) /\ nb # b)

\* C19: after a rebuild, each side of each voxel of the slot has exactly one
\* quad in the opaque stream when the voxel is opaque and the voxel across
\* the side is empty, transparent or semi-transparent, and none otherwise;
\* it has exactly one quad in the transparent stream when the voxel is
\* transparent or semi-transparent and the voxel across is empty, semi-
\* transparent, or a different transparent type next to a liquid, and none
\* otherwise; the streams hold nothing else.
C19_FaceVisibility ==
    (rebuilds >= 1) =>
        LET g == MeshedGeo
            due == {vc \in MeshedSpots \X CubeSides :
                       OpaqueFaceDue(terrain[vc[1]],
                                     terrain[Add3(vc[1], GetNeighbors[vc[2]])])}
            tdue == {vc \in MeshedSpots \X CubeSides :
                       TransparentFaceDue(terrain[vc[1]],
                                          terrain[Add3(vc[1], GetNeighbors[vc[2]])])}
        IN /\ \A vc \in MeshedSpots \X CubeSides :
                 /\ Cardinality(Quads(g.data32, g.data8, vc[1], vc[2], terrain[vc[1]]))
                       = IF vc \in due THEN 1 ELSE 0
                 /\ Cardinality(Quads(g.tdata32, g.tdata8, vc[1], vc[2], terrain[vc[1]]))
                       = IF vc \in tdue THEN 1 ELSE 0
           /\ Len(g.data32) = 6 * Cardinality(due)
           /\ Len(g.data8) = Len(g.data32)
           /\ Len(g.tdata32) = 6 * Cardinality(tdue)
           /\ Len(g.tdata8) = Len(g.tdata32)

\* a water voxel next to glass and next to an opaque block was meshed: the
\* seam towards the glass is in the transparent stream
C19_Witness ==
    /\ rebuilds >= 1
    /\ \E v \in MeshedSpots :
          /\ terrain[v] = Water
          /\ \E c, d \in CubeSides :
                /\ terrain[Add3(v, GetNeighbors[c])] = 8
                /\ IsOpaque(terrain[Add3(v, GetNeighbors[d])])
                /\ Quads(MeshedGeo.tdata32, MeshedGeo.tdata8, v, c, Water) # {}
                /\ Quads(MeshedGeo.tdata32, MeshedGeo.tdata8, v, d, Water) = {}

\* C20: every vertex of a quad in the opaque stream carries the light of its
\* side minus the deduction for the occupied voxels among its three
\* occlusion spots, taken from the table 0, 4, 6, 8 and clamped to 0 .. 16;
\* the light it carries never exceeds the light of the side.
C20_LightWithinBase ==
    (rebuilds >= 1) =>
        \A v \in MeshedSpots, c \in CubeSides :
            \A q \in Quads(MeshedGeo.data32, MeshedGeo.data8, v, c, terrain[v]) :
                \A ind \in 0 .. 5 :
                    LET al == MeshedGeo.data32[6 * q + ind + 1][5]
                        n == Cardinality({k \in 1 .. 3 :
                                 terrain[Add3(GetAmbOcculSpots(c, ind)[k], v)] # 0})
                    IN /\ al = Clamp(sideLight - AMB_CHANGES[n + 1], 0, MaxLight)
                       /\ al <= sideLight

\* the reply and the blob that answer a request
ReplyOf(t) == CASE t = "RequestUdm" -> <<"Udm", "udm">>
                [] t = "RequestSeed" -> <<"Seed", "seed">>
                [] t = "RequestPt" -> <<"Pt", "pt">>

\* C21: the handler's step on a seed, override-store or world-type request
\* appends the reply header and the blob saved for the active seed to the
\* requester's connection and to no other; headers and bodies on a
\* connection always come from its own handler; a handler that is past the
\* step (and so any later read of it) finds the reply on its connection.
C21_ReplyToRequester ==
    /\ [][\A c \in ClientIds :
             LET t == Deserialize(buffer[c]).message_type IN
             (/\ hpc[c] = "dispatch"
              /\ hpc'[c] = "relay_lock"
              /\ t \in {"RequestUdm", "RequestSeed", "RequestPt"})
             => /\ wire'[c] = wire[c] \o
                      <<HeaderEntry(c, iter[c], ReplyOf(t)[1], ReplyOf(t)[2],
                                    files[currentseed][ReplyOf(t)[2]]),
                        BodyEntry(c, iter[c], ReplyOf(t)[2],
                                  files[currentseed][ReplyOf(t)[2]])>>
                /\ \A d \in ClientIds \ {c} : wire'[d] = wire[d]]_vars
    /\ [](\A d \in ClientIds : \A i \in DOMAIN wire[d] :
             wire[d][i].tag \in {"header", "body"} => wire[d][i].src = d)
    /\ [](\A c \in ClientIds :
             LET t == Deserialize(buffer[c]).message_type IN
             (/\ sent[c] > 0
              /\ hpc[c] \in {"relay_lock", "relay", "top", "sendid", "read"}
              /\ t \in {"RequestUdm", "RequestSeed", "RequestPt"})
             => \E i \in DOMAIN wire[c] :
                   /\ wire[c][i].tag = "header"
                   /\ Deserialize(wire[c][i].bytes).message_type = ReplyOf(t)[1]
                   /\ i < Len(wire[c])
                   /\ wire[c][i + 1].tag = "body"
                   /\ wire[c][i + 1].of = ReplyOf(t)[2])

\* a seed request was answered and its handler is at its next read, while
\* another client is in the session set
C21_Witness ==
    \E c \in ClientIds :
        /\ sent[c] > 0
        /\ hpc[c] = "read"
        /\ Deserialize(buffer[c]).message_type = "RequestSeed"
        /\ Cardinality(DOMAIN clients) = 2
        /\ \E i \in DOMAIN wire[c] :
              /\ wire[c][i].tag = "header"
              /\ Deserialize(wire[c][i].bytes).message_type = "Seed"

TakeoffHeld(c) ==
    /\ buffer[c].ok
    /\ Deserialize(buffer[c]).message_type = "RequestTakeoff"

\* the bytes the handler of c holds were written to the connection of d
RelayedTo(w, c, d) ==
    \E i \in DOMAIN w[d] : w[d][i] = RelayEntry(c, iter[c], buffer[c])

\* C23: the arm of a regeneration request installs a generated seed, flips
\* the world type between 0 and 1, raises the deferred-spawn flag and saves
\* the emptied world under the new seed; the handler leaves the processing
\* of the request only through the end of the redistribution loop, with the
\* request written to every registered client.
C23_TakeoffComplete ==
    /\ [][\A c \in ClientIds :
            (hpc[c] = "dispatch" /\ TakeoffHeld(c) /\ hpc'[c] = "relay_lock")
            => /\ currentseed' \in Seeds
               /\ planet_type \in {0, 1}
               /\ planet_type' = 1 - planet_type
               /\ mobspawnqueued'
               /\ currentseed' \in DOMAIN files'
               /\ files'[currentseed'] = [udm |-> <<>>, seed |-> currentseed',
                                          pt |-> planet_type']]_vars
    /\ [][\A c \in ClientIds :
            (/\ TakeoffHeld(c)
             /\ hpc[c] \in {"dispatch", "relay_lock", "relay"}
             /\ hpc'[c] \notin {"dispatch", "relay_lock", "relay", "panicked"})
            => /\ hpc[c] = "relay"
               /\ hpc'[c] = "top"
               /\ c \in DOMAIN clients
               /\ \A d \in DOMAIN clients : RelayedTo(wire', c, d)]_vars

\* a regeneration request was processed and relayed to two clients, and its
\* handler is about to read again
C23_Witness ==
    \E c \in ClientIds :
        /\ TakeoffHeld(c)
        /\ sent[c] > 0
        /\ hpc[c] = "read"
        /\ Cardinality(DOMAIN clients) = 2
        /\ \A d \in DOMAIN clients : RelayedTo(wire, c, d)
        /\ planet_type = 1
        /\ mobspawnqueued

\* a call of move_and_rebuild that moves its slot to another coordinate
Reassigning ==
    /\ call.pc # "idle"
    /\ call.moved
    /\ call.oldpos # call.cpos

\* C24: while move_and_rebuild reassigns a slot, the index never lists the
\* slot's old and new coordinate together, the new coordinate enters the
\* index only after the old one has left it, and when the call returns the
\* slot is used, stands at the new coordinate and is listed there alone.
C24_OldOutBeforeNewIn ==
    /\ [](Reassigning =>
            ~(call.oldpos \in DOMAIN takencare /\ call.cpos \in DOMAIN takencare))
    /\ [][(Reassigning /\ call.cpos \notin DOMAIN takencare
                       /\ call.cpos \in DOMAIN takencare')
           => /\ call.oldpos \notin DOMAIN takencare
              /\ call.pc \in {"insert"}]_vars
    /\ []((Reassigning /\ call.pc = "returned") =>
            /\ chunks[call.index].used
            /\ chunks[call.index].pos = call.cpos
            /\ call.cpos \in DOMAIN takencare
            /\ takencare[call.cpos].geo_index = call.index
            /\ call.oldpos \notin DOMAIN takencare
            /\ \A p \in DOMAIN takencare :
                  takencare[p].geo_index = call.index => p = call.cpos)
    /\ []((call.pc = "returned" /\ ~call.direct) =>
            LET r == MoveAndRebuild(call.from.chunks, call.from.takencare,
                                    call.index, call.cpos)
            IN chunks = r.chunks /\ takencare = r.takencare)

\* a slot that was listed under another coordinate has been moved
C24_Witness ==
    /\ Reassigning
    /\ call.pc = "returned"
    /\ call.oldpos \in DOMAIN call.from.takencare
    /\ call.from.takencare[call.oldpos].geo_index = call.index
    /\ call.cpos \in DOMAIN takencare

\* C25: a call of move_and_rebuild for a coordinate that is already listed
\* leaves the index, the slots, the streams and the ready queue as they
\* were: nothing is rebuilt by the call.
C25_AcquireRebuildsNothing ==
    (call.pc = "returned" /\ ~call.moved /\ ~call.direct) =>
        /\ takencare = call.from.takencare
        /\ chunks = call.from.chunks
        /\ geobank = call.from.geobank
        /\ geoqueue = call.from.geoqueue

\* a statement of rebuild_index is about to run
InRebuild == call.pc \in {"rebuild", "push", "insert"}

\* C27: a rebuild leaves in the slot's streams the mesh of its coordinate and
\* nothing of what they held before; it puts the slot on the ready queue
\* once, after the streams are complete; it lists the slot's coordinate in
\* the index if the coordinate was missing and changes no entry that exists.
C27_RebuildPublishesOnce ==
    /\ [][call.pc = "rebuild" =>
            GeoAt(geobank', call.index) =
                Mesh(ChunkGeoNew, chunks[call.index].pos, sideLight).geo]_vars
    /\ [][geoqueue' # geoqueue =>
            /\ call.pc = "push"
            /\ geoqueue' = Append(geoqueue, call.index)
            /\ GeoAt(geobank, call.index) =
                  Mesh(ChunkGeoNew, chunks[call.index].pos, sideLight).geo]_vars
    /\ [][InRebuild =>
            \A p \in DOMAIN takencare :
                p \in DOMAIN takencare' /\ takencare'[p] = takencare[p]]_vars
    /\ [](call.pc = "returned" =>
            /\ geoqueue = Append(call.from.geoqueue, call.index)
            /\ chunks[call.index].pos \in DOMAIN takencare
            /\ chunks[call.index].used)

\* a slot that held the mesh of another coordinate has been rebuilt, and a
\* second notification is queued
C27_Witness ==
    /\ call.pc = "returned"
    /\ GeoAt(call.from.geobank, call.index) # ChunkGeoNew
    /\ GeoAt(geobank, call.index) # GeoAt(call.from.geobank, call.index)
    /\ GeoAt(geobank, call.index) # ChunkGeoNew
    /\ Len(geoqueue) >= 2

\* Manhattan distance of a slot from the chunk the check was made for
ViewerDist(i) ==
    Abs(chunks[i].pos[1] - last_user_c_pos[1])
    + Abs(chunks[i].pos[2] - last_user_c_pos[2])

\* C26: a step that takes a used slot away from its coordinate finds no
\* unused slot in the pool, and no used slot farther from the viewer.
C26_UnusedThenFarthest ==
    [][\A v \in Slots :
          (chunks[v].used /\ chunks'[v].pos # chunks[v].pos)
          => /\ \A i \in Slots : chunks[i].used
             /\ \A i \in Slots : ViewerDist(i) <= ViewerDist(v)]_vars

\* C28: when the uploads of a frame are done, none of the notifications
\* that were queued when the frame began is still queued; no notification
\* is consumed twice, and a consumed one is no longer queued.
C28_FrameDrainsQueue ==
    /\ rpc = "end" => frameStart \cap Queued = {}
    /\ \A i, j \in DOMAIN served : i # j => served[i] # served[j]
    /\ \A i \in DOMAIN served : served[i] \notin Queued

\* the positions of the worker right after a user, gen or background pop
\* of the four loops, where the light requests are to be drained
LightDrains == {"user_light", "gen_light", "bg_light"}

\* C29: in one pass the worker pops each of the tiers user, gen and
\* background at most once, and when it leaves the light requests that
\* follow such a pop, no light request is left queued.
C29_OnePopPerTier ==
    /\ [][\A t \in Tiers \ {"light"} :
            Len(Queue(t)') < Len(Queue(t)) => t \notin poppedInPass]_vars
    /\ [][(wpc \in LightDrains /\ wpc' \notin LightDrains)
            => light_rebuild_requests' = <<>>]_vars

\* every coordinate of the window around the viewer has a slot
WindowResident ==
    \A n \in 1 .. (WindowSide * WindowSide) :
        WindowSpot(camChunk, n) \in DOMAIN takencare

\* C30: with the viewer staying in its chunk and unused slots in the pool,
\* the running worker eventually gives every coordinate of the window a
\* slot, also when a check was left before all of them were acquired; the
\* time of the debounce keeps elapsing, and the rerender requests stop
\* arriving at some point, so that nothing else keeps the worker busy.
C30_WindowEventuallyResident ==
    ([]<>timeElapsed /\ <>[](QueuedTotal = 0)) => <>WindowResident

----------------------------------------------------------------------------
(***************************************************************************)
(* Claims about the locks of the server (SpecServer).                      *)
(***************************************************************************)
Threads == ClientIds \cup {MainThread}

\* the threads holding the lock a thread is blocked on: the session-set
\* lock at clients.lock(), a stream lock at stream.lock()
BlockedOn(t) ==
    IF t = MainThread
    THEN IF mpc = "insert" \/ (mpc = "mobloop" /\ mobsLeft > 0) THEN clientsLock
         ELSE IF mpc = "mobsend" /\ mtodo # <<>> THEN streamLock[Head(mtodo)]
         ELSE {}
    ELSE IF hpc[t] \in {"top", "relay_lock", "err", "brk"} THEN clientsLock
         ELSE IF hpc[t] = "sendid" THEN streamLock[t]
         ELSE IF hpc[t] = "relay" /\ Head(todo[t]) # t THEN streamLock[Head(todo[t])]
         ELSE {}

\* a set of threads each of which waits for a lock held inside the set
WaitCycle(S) == S # {} /\ \A t \in S : BlockedOn(t) # {} /\ BlockedOn(t) \subseteq S

\* C31: no set of server threads waits in a cycle on the session-set lock
\* and the stream locks.
C31_NoLockCycle == \A S \in SUBSET Threads : ~WaitCycle(S)

\* the places on a connection where a relayed block mutation of spot stands
Edits(w, spot) ==
    {i \in DOMAIN w : /\ w[i].tag = "relay"
                      /\ Deserialize(w[i].bytes).message_type = "BlockSet"
                      /\ Deserialize(w[i].bytes).spot = spot}

Last(S) == CHOOSE i \in S : \A j \in S : j <= i

\* handlers c and d have both applied a block mutation of spot in their
\* current iteration, with different blocks
BothApplied(c, d, spot) ==
    /\ c # d
    /\ \A x \in {c, d} :
          /\ buffer[x].ok
          /\ Deserialize(buffer[x]).message_type = "BlockSet"
          /\ Deserialize(buffer[x]).spot = spot
          /\ iter[x] > 0
          /\ appliedIter[x] = iter[x]
    /\ Deserialize(buffer[c]).info # Deserialize(buffer[d]).info

\* the two handlers are not left waiting for each other's locks
C32_BothCanRelay ==
    \A c, d \in ClientIds : \A spot \in Spots :
        BothApplied(c, d, spot)
        => \A S \in SUBSET Threads : (c \in S \/ d \in S) => ~WaitCycle(S)

\* on a connection that carries both relays, the mutation applied last
\* stands last
C32_RelayOrderIsApplyOrder ==
    \A c, d \in ClientIds : \A spot \in Spots :
        (BothApplied(c, d, spot) /\ spot \in DOMAIN udmWriter)
        => \A r \in ClientIds :
              (Count(wire[r], Relayed(c)) > 0 /\ Count(wire[r], Relayed(d)) > 0)
              => wire[r][Last(Edits(wire[r], spot))].src = udmWriter[spot][1]

\* after both relays every client holds the block the server holds
C32_Converged ==
    \A c, d \in ClientIds : \A spot \in Spots :
        (BothApplied(c, d, spot) /\ hpc[c] = "top" /\ hpc[d] = "top")
        => \A r \in DOMAIN clients :
              /\ Edits(wire[r], spot) # {}
              /\ Deserialize(wire[r][Last(Edits(wire[r], spot))].bytes).info
                     = BlockAt(udm, currentseed, spot)

\* C32: when two clients send conflicting block mutations of one coordinate,
\* both are relayed, in the order in which they were applied, and once both
\* relays are through every client holds the block the server holds.
C32_ConflictingEditsConverge ==
    /\ C32_BothCanRelay
    /\ C32_RelayOrderIsApplyOrder
    /\ C32_Converged

C32_BothRelayed ==
    \E c, d \in DOMAIN clients : \E spot \in Spots :
        /\ BothApplied(c, d, spot)
        /\ hpc[c] = "top" /\ hpc[d] = "top"
        /\ Count(wire[c], Relayed(d)) = 1
        /\ Count(wire[c], Relayed(c)) = 1

----------------------------------------------------------------------------
(***************************************************************************)
(* Claims about the client (SpecClient, SpecRegen).                        *)
(***************************************************************************)

\* C33: in multiplayer mode the blocks of the client's world change only
\* when a block mutation received from the server is carried out, and a
\* break or placement of the player does nothing but send its mutation.
C33_OnlyServerChangesBlocks ==
    /\ [][(in_multiplayer /\ client_udm' # client_udm)
            => /\ server_command_queue # <<>>
               /\ server_command_queue' = Tail(server_command_queue)
               /\ Head(server_command_queue).message_type = "BlockSet"
               /\ client_udm' = SetBlock(client_udm, Head(server_command_queue).spot,
                                         Head(server_command_queue).info)]_vars
    /\ [][(in_multiplayer /\ sends' = sends /\ server_command_queue' = server_command_queue)
            => client_udm' = client_udm]_vars

\* the rebuild workers that have not ended
Running == {w \in WorkerIds : workers[w].pc \in {"check", "pass"}}

\* C35: at most one rebuild worker runs at any time; the reset of the chunk
\* system and the whole-world rebuild that follows it happen with no worker
\* running, no pass of a worker spans a reset, and a worker is spawned only
\* when no other is running.
C35_OneWorkerThread ==
    /\ [](Cardinality(Running) <= 1)
    /\ [](gpc.pc \in {"reset", "init", "loading", "start"} => Running = {})
    /\ [](\A w \in WorkerIds : workers[w].pc = "pass" => workers[w].saw = resets)
    /\ [][resets' # resets => Running = {}]_vars
    /\ [][\A w \in WorkerIds :
            (workers[w].pc = "unborn" /\ workers'[w].pc # "unborn") => Running = {}]_vars

C35_Witness ==
    /\ resets = MaxRegens
    /\ \E w \in WorkerIds : workers[w].pc = "exited"
    /\ \E w \in WorkerIds : workers[w].pc = "pass" /\ workers[w].saw = resets

----------------------------------------------------------------------------
(***************************************************************************)
(* More claims about the relay server.                                     *)
(***************************************************************************)
\* the main loop carries out the deferred mob spawn in this step
Spawns == mpc = "spawncheck" /\ mpc' = "accept" /\ mobspawnqueued /\ planet_type = 1

\* C34: the deferred mob spawn happens only with the flag set, and the step
\* of the main loop that carries it out clears the flag, so that one
\* regeneration request is followed by at most one spawn.
C34_SpawnOncePerRequest ==
    /\ [][(mpc = "spawncheck" /\ nsme' # nsme) => mobspawnqueued]_vars
    /\ [][Spawns => ~mobspawnqueued']_vars


IsBodyOf(b, h) ==
    /\ h.tag = "header"
    /\ b.tag = "body"
    /\ b.src = h.src
    /\ b.seq = h.seq
    /\ Deserialize(h.bytes).message_type =
           (CASE b.of = "id" -> "YourId" [] b.of = "udm" -> "Udm"
              [] b.of = "seed" -> "Seed" [] OTHER -> "Pt")
    /\ Deserialize(h.bytes).info = BodySize(b.of, b.payload)

\* C37: on every connection each header of a variable-length message is
\* followed at once by its body, or is the last thing written while its
\* handler is about to write the body, and each body stands right after
\* its header: nothing of another thread comes between the two.
C37_HeaderBodyContiguous ==
    \A d \in ClientIds : \A i \in DOMAIN wire[d] :
        /\ wire[d][i].tag = "header"
           => IF i < Len(wire[d]) THEN IsBodyOf(wire[d][i + 1], wire[d][i])
              ELSE wire[d][i].src = d /\ hpc[d] \in {"id_body", "reply_body"}
        /\ wire[d][i].tag = "body"
           => i > 1 /\ IsBodyOf(wire[d][i], wire[d][i - 1])

\* a handler stands between the header and the body of a reply while
\* another thread waits to write to the same connection, and relays of
\* other threads were written to it before
C37_Witness ==
    \E d \in ClientIds :
        /\ hpc[d] = "reply_body"
        /\ wire[d][Len(wire[d])].tag = "header"
        /\ \/ \E c \in ClientIds \ {d} : hpc[c] = "relay" /\ Head(todo[c]) = d
           \/ mpc = "mobsend" /\ mtodo # <<>> /\ Head(mtodo) = d
        /\ \E i \in DOMAIN wire[d] : wire[d][i].tag \in {"relay", "mob"} /\ wire[d][i].src # d

\* the blobs under the active seed are those of the active world
Persisted ==
    /\ currentseed \in DOMAIN files
    /\ files[currentseed] = [udm |-> udm, seed |-> currentseed, pt |-> planet_type]

\* C38: a handler that gets to read the blobs for a seed, override-store or
\* world-type request finds the active seed persisted, also when another
\* handler regenerates the world at the same time; the blob it sends is
\* that of the active seed, and while a regeneration has reset the world
\* and not yet saved it no request is served.
C38_RequestReadsPersistedSeed ==
    /\ [][\A c \in ClientIds :
            (/\ hpc[c] = "dispatch"
             /\ hpc'[c] # "dispatch"
             /\ Deserialize(buffer[c]).message_type \in ReplyTypes)
            => /\ Persisted
               /\ \A d \in ClientIds : hpc[d] # "takeoff_save"
               /\ hpc'[c] = "reply_body"
                  => Len(wire'[c]) = Len(wire[c]) + 1]_vars
    /\ [](\A c \in ClientIds : hpc[c] = "reply_body" => Persisted)

\* a regeneration has reset the world to a seed that has no files yet while
\* another handler holds a request for a blob
C38_Witness ==
    \E c \in ClientIds : \E d \in ClientIds \ {c} :
        /\ hpc[c] = "takeoff_save"
        /\ currentseed \notin DOMAIN files
        /\ hpc[d] = "dispatch"
        /\ Deserialize(buffer[d]).message_type \in ReplyTypes


\* the places of a connection that hold relayed messages
RelayPlaces(w) == {i \in DOMAIN w : w[i].tag = "relay"}

=============================================================================
